---- MODULE Spec2Model ----
(***************************************************************************)
(* FarmQuest (src/FarmQuest_FInal.py): the screen buffer, the camera, the  *)
(* status message, the tool and interaction handlers, the playing-frame    *)
(* draw passes, the main loop, the input handler and the terminal, as      *)
(* state machines.                                                         *)
(*                                                                         *)
(* Conventions.  A Python str is a TLA+ string; its i-th character (from   *)
(* 0) is SubSeq(s, i+1, i+1).  Glyphs that are not ASCII in the source are *)
(* written with an ASCII name ("CLUB" for the club glyph, "BOX_H" for the  *)
(* double horizontal line, ...).  A style (an escape sequence of the class *)
(* Colors) is written with the name of the attribute that holds it, and    *)
(* Colors.rgb_fg(r, g, b) + Colors.rgb_bg(r, g, b) as "fg(r,g,b)bg(r,g,b)".*)
(***************************************************************************)
EXTENDS Integers, Sequences, FiniteSets, TLC

VARIABLES
    screen,       \* the ScreenBuffer object (buffer, color_buffer)
    output,       \* what render() printed last: the lines, each a token sequence
    last_op,      \* history: the ScreenBuffer call made last, with its arguments
    prev_screen,  \* history: the ScreenBuffer before that call
    nops,         \* history: number of ScreenBuffer calls made
    cam,          \* a call of calculate_camera_offset: its arguments and result
    game_state,   \* main_game_loop: the EnhancedGameState object
    current_state,\* main_game_loop: "main_menu", "playing" or "paused"
    running,      \* main_game_loop: the loop condition
    main_menu,    \* main_game_loop: the MainMenu object
    pause_menu,   \* main_game_loop: the PauseMenu object
    trace,        \* history: the last TraceLen iterations of the main loop, in order
    frames,       \* history: the number of iterations made since the initial state
    stumps,       \* history: the minutes on the game clock since each felling
    pc,           \* the position inside an iteration of the main loop
    status_log,   \* history: the last set_status call and the update_status calls since
    input_handler,\* the InputHandler object (is_windows, old_settings)
    terminal,     \* the terminal: its attributes and the bytes typed and not read yet
    call          \* a call of InputHandler.getch: its position, locals and result

bufVars == <<screen, output, last_op, prev_screen, nops>>
camVars == <<cam>>
gameVars == <<game_state, current_state, running, main_menu, pause_menu, trace, frames,
              stumps>>
drawVars == <<pc>>
statusVars == <<status_log>>
inputVars == <<input_handler, terminal, call>>
vars == <<bufVars, camVars, gameVars, drawVars, statusVars, inputVars>>

(***************************************************************************)
(* Bounds of the model.                                                    *)
(***************************************************************************)
BufW == 3      \* width of the buffer of the ScreenBuffer specification
BufH == 2      \* its height
MaxOps == 1    \* ScreenBuffer calls made after the initial painting
CamMaxMap == 6   \* largest map dimension of the camera specification
CamMaxView == 4  \* largest viewport dimension (screen dimension - 4) there
MaxFrames == 2       \* iterations of the main loop made after the initial state
TraceLen == 3        \* iterations of the main loop the history trace keeps
MaxDrawFrames == 1   \* iterations of the main loop in the draw specification
MaxTimeout == 30     \* largest timeout given to set_status in the status specification
MaxExtraTicks == 2   \* update_status calls made after a message has expired
MaxKeyPresses == 2       \* keys typed in the input specification
MaxInputFrames == 2      \* iterations of the main loop in the input specification

(***************************************************************************)
(* class Colors: the styles used below.                                    *)
(***************************************************************************)
ENDC == "ENDC"

Max(a, b) == IF a >= b THEN a ELSE b
Min(a, b) == IF a <= b THEN a ELSE b

(***************************************************************************)
(* class ScreenBuffer.  buffer[y][x] and color_buffer[y][x] with y in      *)
(* 0..height-1 and x in 0..width-1.  Two history fields: raised records an *)
(* exception escaping a method (an IndexError of a list access), writes    *)
(* counts the cell writes made.                                            *)
(***************************************************************************)
ScreenBuffer(width, height) ==
    [width        |-> width,
     height       |-> height,
     buffer       |-> [y \in 0..(height - 1) |-> [x \in 0..(width - 1) |-> " "]],
     color_buffer |-> [y \in 0..(height - 1) |-> [x \in 0..(width - 1) |-> ENDC]],
     raised       |-> FALSE,
     writes       |-> 0]

clear(scr) ==
    [scr EXCEPT !.buffer = [y \in 0..(scr.height - 1) |->
                                [x \in 0..(scr.width - 1) |-> " "]],
                !.color_buffer = [y \in 0..(scr.height - 1) |->
                                [x \in 0..(scr.width - 1) |-> ENDC]]]

\* Python's list index: i in 0..n-1 is itself, i in -n..-1 counts from the
\* end, anything else raises IndexError (here: -1).
PyIndex(i, n) == IF 0 <= i /\ i < n THEN i
                 ELSE IF -n <= i /\ i < 0 THEN n + i
                 ELSE -1

\* self.buffer[y][x] = char; self.color_buffer[y][x] = color
SetCell(scr, x, y, char, color) ==
    LET yy == PyIndex(y, scr.height)
        xx == PyIndex(x, scr.width)
    IN  IF scr.raised THEN scr
        ELSE IF yy < 0 \/ xx < 0 THEN [scr EXCEPT !.raised = TRUE]
        ELSE [scr EXCEPT !.buffer[yy][xx] = char,
                         !.color_buffer[yy][xx] = color,
                         !.writes = @ + 1]

draw_char_unguarded(scr, x, y, char, color) == SetCell(scr, x, y, char, color)

draw_char_no_lower_bound(scr, x, y, char, color) ==
    IF x < scr.width /\ y < scr.height
    THEN SetCell(scr, x, y, char, color)
    ELSE scr

draw_char(scr, x, y, char, color) ==
    IF 0 <= x /\ x < scr.width /\ 0 <= y /\ y < scr.height
    THEN SetCell(scr, x, y, char, color)
    ELSE scr

\* for i, char in enumerate(string): the iterations for the indexes i to
\* end - 1 (0-based), walked as the first half and then the second half.  The
\* break at x + i >= width ends every later iteration as well.
RECURSIVE draw_string_loop(_, _, _, _, _, _, _)
draw_string_loop(scr, x, y, string, color, i, end) ==
    IF i >= end THEN scr
    ELSE IF x + i >= scr.width THEN scr
    ELSE IF i + 1 = end
    THEN draw_char(scr, x + i, y, SubSeq(string, i + 1, i + 1), color)
    ELSE draw_string_loop(
            draw_string_loop(scr, x, y, string, color, i, (i + end) \div 2),
            x, y, string, color, (i + end) \div 2, end)

RECURSIVE draw_string_wrap_loop(_, _, _, _, _, _)
draw_string_wrap_loop(scr, x, y, string, color, i) ==
    IF i >= Len(string) THEN scr
    ELSE draw_string_wrap_loop(
            draw_char(scr, (x + i) % scr.width, y + ((x + i) \div scr.width),
                      SubSeq(string, i + 1, i + 1), color),
            x, y, string, color, i + 1)

draw_string_wrapping(scr, x, y, string, color) ==
    draw_string_wrap_loop(scr, x, y, string, color, 0)

draw_string(scr, x, y, string, color) ==
    draw_string_loop(scr, x, y, string, color, 0, Len(string))

\* Consecutive calls screen.draw_char(x, y, char, color), given as the
\* sequence of their arguments <<x, y, char, color>>: the calls i to end - 1,
\* the first half and then the second half.
RECURSIVE draw_chars_loop(_, _, _, _)
draw_chars_loop(scr, calls, i, end) ==
    IF i >= end \/ scr.raised THEN scr
    ELSE IF i + 1 = end
    THEN draw_char(scr, calls[i][1], calls[i][2], calls[i][3], calls[i][4])
    ELSE draw_chars_loop(draw_chars_loop(scr, calls, i, (i + end) \div 2),
                         calls, (i + end) \div 2, end)

draw_chars(scr, calls) == draw_chars_loop(scr, calls, 1, Len(calls) + 1)

\* Consecutive calls screen.draw_string(x, y, string, color), given as the
\* sequence of their arguments <<x, y, string, color>>.
RECURSIVE draw_strings_loop(_, _, _, _)
draw_strings_loop(scr, calls, i, end) ==
    IF i >= end \/ scr.raised THEN scr
    ELSE IF i + 1 = end
    THEN draw_string(scr, calls[i][1], calls[i][2], calls[i][3], calls[i][4])
    ELSE draw_strings_loop(draw_strings_loop(scr, calls, i, (i + end) \div 2),
                           calls, (i + end) \div 2, end)

draw_strings(scr, calls) == draw_strings_loop(scr, calls, 1, Len(calls) + 1)

\* for x in range(start_x, end_x + 1): self.draw_char(x, y, char, color)
RECURSIVE draw_horizontal_line(_, _, _, _, _, _)
draw_horizontal_line(scr, y, start_x, end_x, char, color) ==
    IF start_x > end_x THEN scr
    ELSE draw_horizontal_line(draw_char(scr, start_x, y, char, color),
                              y, start_x + 1, end_x, char, color)

(***************************************************************************)
(* render().  A printed line is a sequence of tokens: a style code         *)
(* [k |-> "style", v |-> the style] or a glyph [k |-> "glyph", v |-> the   *)
(* character].                                                             *)
(***************************************************************************)
StyleTok(c) == [k |-> "style", v |-> c]
GlyphTok(g) == [k |-> "glyph", v |-> g]

\* One iteration of the inner loop of render, for column x: st holds the
\* line so far and current_color.
render_cell(scr, y, x, st) ==
    LET c == scr.color_buffer[y][x]
        l1 == IF c # st.current_color THEN Append(st.line, StyleTok(c)) ELSE st.line
    IN  [current_color |-> c, line |-> Append(l1, GlyphTok(scr.buffer[y][x]))]

\* The inner loop of render for the columns x to end - 1, walked as the first
\* half and then the second half (Len(st.line) is read first, so that the
\* first half is evaluated before the second starts).
RECURSIVE render_row_loop(_, _, _, _, _)
render_row_loop(scr, y, x, end, st) ==
    IF x >= end \/ Len(st.line) < 0 THEN st
    ELSE IF x + 1 = end THEN render_cell(scr, y, x, st)
    ELSE render_row_loop(scr, y, (x + end) \div 2, end,
                         render_row_loop(scr, y, x, (x + end) \div 2, st))

\* One iteration of the outer loop: the line printed for row y.
render_row_code_per_cell(scr, y) ==
    LET RECURSIVE loop(_, _)
        loop(x, line) ==
            IF x >= scr.width THEN line
            ELSE loop(x + 1, Append(Append(line, StyleTok(scr.color_buffer[y][x])),
                                    GlyphTok(scr.buffer[y][x])))
    IN  Append(loop(0, <<>>), StyleTok(ENDC))

\* current_color carried over from the end of the previous row instead of
\* being reset at the start of each row.
render_row_carry(scr, y) ==
    LET start == IF y = 0 THEN ENDC ELSE scr.color_buffer[y - 1][scr.width - 1]
    IN  Append(render_row_loop(scr, y, 0, scr.width,
                               [current_color |-> start, line |-> <<>>]).line,
               StyleTok(ENDC))

render_row(scr, y) ==
    Append(render_row_loop(scr, y, 0, scr.width,
                           [current_color |-> ENDC, line |-> <<>>]).line,
           StyleTok(ENDC))

\* The lines printed, top row first.
render(scr) == [n \in 1..scr.height |-> render_row(scr, n - 1)]

(***************************************************************************)
(* The ScreenBuffer specification: a buffer of BufW x BufH cells, painted  *)
(* by draw_char calls, and then MaxOps calls of its methods with           *)
(* coordinates inside and outside the grid.                                *)
(***************************************************************************)
\* The styles a row is painted with, repeated along the row.
RowKinds == {<<ENDC>>, <<"RED">>, <<"RED", "GREEN">>, <<ENDC, "RED">>,
             <<"RED", "RED", ENDC>>}

RECURSIVE PaintRow(_, _, _, _)
PaintRow(scr, y, cyc, x) ==
    IF x >= scr.width THEN scr
    ELSE PaintRow(draw_char(scr, x, y, "x", cyc[(x % Len(cyc)) + 1]), y, cyc, x + 1)

RECURSIVE PaintRows(_, _, _)
PaintRows(scr, cyc, y) ==
    IF y >= scr.height THEN scr
    ELSE PaintRows(PaintRow(scr, y, cyc, 0), cyc, y + 1)

\* Row 0 painted with k0 and the rows below it with k1.
Painted(k0, k1) == PaintRow(PaintRows(ScreenBuffer(BufW, BufH), k1, 1), 0, k0, 0)

NoOp == [op |-> "init", x |-> 0, y |-> 0, text |-> "", color |-> ENDC]

\* The values of the variables of the other specifications, which this one
\* leaves alone.
CamIdle == cam = [called |-> FALSE]
Idle == "idle"
GameIdle ==
    /\ game_state = Idle
    /\ current_state = Idle
    /\ running = FALSE
    /\ main_menu = Idle
    /\ pause_menu = Idle
    /\ trace = <<>>
    /\ frames = 0
    /\ stumps = <<>>
DrawIdle == pc = Idle
StatusIdle == status_log = Idle
InputIdle == input_handler = Idle /\ terminal = Idle /\ call = Idle
BufIdle ==
    /\ screen = ScreenBuffer(0, 0)
    /\ output = <<>>
    /\ last_op = NoOp
    /\ prev_screen = screen
    /\ nops = 0

BufInit ==
    /\ CamIdle /\ GameIdle /\ DrawIdle /\ StatusIdle /\ InputIdle
    /\ \/ screen = ScreenBuffer(BufW, BufH)
       \/ \E k0 \in RowKinds, k1 \in RowKinds : screen = Painted(k0, k1)
    /\ output = <<>>
    /\ last_op = NoOp
    /\ prev_screen = screen
    /\ nops = 0

Called(op, x, y, text, color) ==
    /\ nops < MaxOps
    /\ nops' = nops + 1
    /\ prev_screen' = screen
    /\ last_op' = [op |-> op, x |-> x, y |-> y, text |-> text, color |-> color]
    /\ UNCHANGED <<camVars, gameVars, drawVars, statusVars, inputVars>>

DrawChar ==
    \E x \in (-1)..BufW, y \in (-1)..BufH, color \in {ENDC, "RED"} :
        /\ Called("draw_char", x, y, "X", color)
        /\ screen' = draw_char(screen, x, y, "X", color)
        /\ UNCHANGED output

DrawString ==
    \E x \in (-2)..BufW, y \in (-1)..BufH, text \in {"ABCDE", "AB"} :
        /\ Called("draw_string", x, y, text, "GREEN")
        /\ screen' = draw_string(screen, x, y, text, "GREEN")
        /\ UNCHANGED output

Clear ==
    /\ Called("clear", 0, 0, "", ENDC)
    /\ screen' = clear(screen)
    /\ UNCHANGED output

Render ==
    /\ Called("render", 0, 0, "", ENDC)
    /\ output' = render(screen)
    /\ UNCHANGED screen

BufNext == DrawChar \/ DrawString \/ Clear \/ Render

SpecBuf == BufInit /\ [][BufNext]_vars

Cell(scr, x, y) == <<scr.buffer[y][x], scr.color_buffer[y][x]>>
Xs(scr) == 0..(scr.width - 1)
Ys(scr) == 0..(scr.height - 1)

\* C1: draw_char(x, y, glyph, style) never raises; with (x, y) inside the grid
\* it sets exactly cell (x, y) to (glyph, style) and leaves every other cell
\* as it was, and with (x, y) outside it leaves both grids as they were.
C1_DrawCharFrame ==
    last_op.op = "draw_char" =>
        /\ ~screen.raised
        /\ \A cx \in Xs(screen), cy \in Ys(screen) :
              Cell(screen, cx, cy) =
                 IF cx = last_op.x /\ cy = last_op.y
                 THEN <<last_op.text, last_op.color>>
                 ELSE Cell(prev_screen, cx, cy)
        /\ screen.writes - prev_screen.writes =
              IF last_op.x \in Xs(screen) /\ last_op.y \in Ys(screen) THEN 1 ELSE 0
        /\ (~(last_op.x \in Xs(screen) /\ last_op.y \in Ys(screen))
              => screen = prev_screen)

\* draw_char was called with a negative x on a painted buffer (and did nothing).
C1_Witness ==
    /\ last_op.op = "draw_char"
    /\ last_op.x < 0
    /\ last_op.y = 0
    /\ prev_screen.color_buffer[0][1] = "GREEN"
    /\ screen = prev_screen

\* C2: draw_string(x, y, text, style) writes character i of text to cell
\* (x+i, y) exactly for the i with 0 <= x+i < width, and only if 0 <= y <
\* height; it never wraps onto another row and changes no other cell;
\* draw_string(width-2, 0, "ABCDE", style) writes exactly 2 glyphs.
C2_DrawStringClips ==
    last_op.op = "draw_string" =>
        /\ ~screen.raised
        /\ \A cx \in Xs(screen), cy \in Ys(screen) :
              Cell(screen, cx, cy) =
                 IF cy = last_op.y /\ cx - last_op.x \in 0..(Len(last_op.text) - 1)
                 THEN <<SubSeq(last_op.text, cx - last_op.x + 1, cx - last_op.x + 1),
                        last_op.color>>
                 ELSE Cell(prev_screen, cx, cy)
        /\ screen.writes - prev_screen.writes =
              IF last_op.y \in Ys(screen)
              THEN Cardinality({i \in 0..(Len(last_op.text) - 1) : last_op.x + i \in Xs(screen)})
              ELSE 0
        /\ (last_op.x = screen.width - 2 /\ last_op.y = 0 /\ last_op.text = "ABCDE"
              => screen.writes - prev_screen.writes = 2)

\* draw_string(width-2, 0, "ABCDE", style) has been called on a painted buffer.
C2_Witness ==
    /\ last_op.op = "draw_string"
    /\ last_op.x = screen.width - 2 /\ last_op.y = 0 /\ last_op.text = "ABCDE"
    /\ Cell(screen, screen.width - 2, 0) = <<"A", "GREEN">>
    /\ Cell(screen, screen.width - 1, 0) = <<"B", "GREEN">>
    /\ Cell(screen, 0, screen.height - 1) = <<"x", "RED">>
    /\ screen.writes - prev_screen.writes = 2

(***************************************************************************)
(* Reading a printed line.                                                 *)
(***************************************************************************)
\* The line without its last token (the row-end reset).
Body(line) == SubSeq(line, 1, Len(line) - 1)

\* For each glyph of the line, in order, the number of style codes emitted
\* between the previous glyph (or the start of the line) and it.
RECURSIVE CodesBefore(_, _, _)
CodesBefore(line, i, pending) ==
    IF i > Len(line) THEN <<>>
    ELSE IF line[i].k = "style" THEN CodesBefore(line, i + 1, pending + 1)
    ELSE <<pending>> \o CodesBefore(line, i + 1, 0)

RECURSIVE SumSeq(_)
SumSeq(s) == IF s = <<>> THEN 0 ELSE Head(s) + SumSeq(Tail(s))

\* Replaying a line on a terminal whose current style is cur: a style code
\* replaces the current style, a glyph is shown in the current style.
RECURSIVE Replay(_, _, _)
Replay(line, i, cur) ==
    IF i > Len(line) THEN <<>>
    ELSE IF line[i].k = "style" THEN Replay(line, i + 1, line[i].v)
    ELSE <<(<<line[i].v, cur>>)>> \o Replay(line, i + 1, cur)

RunStart(scr, x, y) == x = 0 \/ scr.color_buffer[y][x] # scr.color_buffer[y][x - 1]
Uniform(scr, y) == \A x \in Xs(scr) : scr.color_buffer[y][x] = scr.color_buffer[y][0]

\* C3 (as amended): render() emits at most one style-change code per maximal
\* run of same-style cells of a row, and only at the start of a run; for a
\* row whose cells all carry the same style it emits exactly one style-change
\* code if that style is not the default and none if it is the default (the
\* row-end reset follows in both cases).
C3_OneCodePerRun ==
    last_op.op = "render" =>
        \A y \in Ys(screen) :
            LET codes == CodesBefore(Body(output[y + 1]), 1, 0)
            IN  /\ Len(codes) = screen.width
                /\ \A x \in Xs(screen) :
                      /\ codes[x + 1] <= 1
                      /\ codes[x + 1] = 1 => RunStart(screen, x, y)
                /\ Uniform(screen, y) =>
                      SumSeq(codes) = IF screen.color_buffer[y][0] = ENDC THEN 0 ELSE 1

\* C3 as claimed: a row of cells of one style gets exactly one style code,
\* whatever the style, the default included.
C3_AsClaimed ==
    last_op.op = "render" =>
        \A y \in Ys(screen) :
            Uniform(screen, y) => SumSeq(CodesBefore(Body(output[y + 1]), 1, 0)) = 1

\* render() printed a buffer with a row all in one non-default style, below a
\* row of two runs.
C3_Witness ==
    /\ last_op.op = "render"
    /\ Uniform(screen, screen.height - 1)
    /\ screen.color_buffer[screen.height - 1][0] = "RED"
    /\ ~Uniform(screen, 0)

\* C4: render() prints the rows top to bottom, ends each line with the
\* default-style reset, and replaying a line from the default style gives the
\* (glyph, style) of every cell of its row, left to right; no style carries
\* over from one row into the next.
C4_RenderFaithful ==
    last_op.op = "render" =>
        /\ Len(output) = screen.height
        /\ \A y \in Ys(screen) :
              LET line == output[y + 1]
              IN  /\ line[Len(line)] = StyleTok(ENDC)
                  /\ Replay(line, 1, ENDC) = [n \in 1..screen.width |-> Cell(screen, n - 1, y)]

\* render() printed a buffer whose rows 0 and 1 both start in the style row 0
\* ends in, which is not the default.
C4_Witness ==
    /\ last_op.op = "render"
    /\ screen.color_buffer[0][screen.width - 1] = "RED"
    /\ screen.color_buffer[1][0] = "RED"
    /\ screen.color_buffer[0][0] = "RED"
    /\ Len(output) = screen.height

(***************************************************************************)
(* Screen dimensions and the static map.                                   *)
(***************************************************************************)
SCREEN_WIDTH == 100
SCREEN_HEIGHT == 24
UI_PANEL_WIDTH == 32
MAIN_AREA_WIDTH == SCREEN_WIDTH - UI_PANEL_WIDTH

VILLAGE_MAP == <<
    "MMMMGGGGGGGGGGGfFFFFFFFFFFFF~~~~~~~~~GGGGGGGGGGGGGGGGGGGGGGGGGGGGGGGGGGGGGGGGG",
    "MMMGGGGGGGGGGGGfFFFFFFFFFFFFFF~*~~~~~~~GGGGGGGHHHHHHHHHHHGGGGGGGGGGGGGGGGGGGGG",
    "MMMGGGTGGGGGGGGffFFFFFFFFFFFFF~~~~~~~~~GGGGGGGHHHHHHHHHHHGGGGGGGGGssssssssGGGG",
    "MMGGGGGGGGGGGGGGfFFFFFFFFFFFFFF~~~~~~~~~GGGGGGHHHHHHHHHHHGGGGGGGGGssssssssGGGG",
    "MMGGTGGGGTGGGGGGGffFFFFFFFFFFFF~~~~~~~*~GGGGGGGGGGGGGGGGGGGGGGGGGGssssssssGGGG",
    "MGGGGGGGGGGGGGGGGGffffGGGffffff~~~~~~~~~GGGGGGGGGGGGGGGGGGGGGGGGGGGGGGGGGGGGGG",
    "MGGGGGTGGGGGGGGGGGGGGGGGGGGGGG~~~~~~~~~GGGGGGGGGGGGGGGGGGGGGGGGGGGGGGGGGGGGGGG",
    "MMGTGGGGGGGGGGGGGGGGGGGGGGGGGG~~~~~~~~~GGGGGGGGGGGGGGGGGGGGGGGTTGGGGGGGGGGGGGG",
    "MMGGGGGGGGGTGGGGGGTGGGGGGGGGGG~~~~~~~~~GGGGGGGGGGGGGGGGGGGGGGGGGGGGGGGGGGGGGGG",
    "MTTGTGGGGGTGGGGGGGGGGGGGGGGGGGPPPPPPPPPGGGGGGGGGGGGGGGGGGGGGGGGGGGGGGGGGGGGGGG",
    "MGGTGGGTGGGGGGGGTGGGGGGGGGGGGGPPPPPPPPPGGGGGGGGGGGGGGGGGGGGGGGGGGGGGGGGGGGGGGG",
    "MMGGGGGGGGGGGGGGGTTGGGGGGGGGGGPPPPPPPPPGGGGGGGGGGGGGGGGGGGGGGGGGGGGGGGGGGGGGGG",
    "MMMGTTTTGGGGGGGGGGGGGGGGGGGGGG~~~~~~~~~GGGGGGGGGGGGGGGGGGGGGGGGGGGGGGGGGGGGGGG",
    "MMMGGGGGGGTTTTTGGGGGGGGGGGGGGG~~~~~~~~~GGGGGGGGGGGGGGGGGGGGGTGGGGGGGGGGGGGGGGG",
    "MMMGGGGGGGGGGGGGGGGGGGGGGGGGGG~~~~~~~~~GGGGGGGGGGGGGGGGGGGGGGGGGGGGGGGGGGGGGGG",
    "MMGTTTTTTGGGGGGGGGGGGGGGGGGGGGGG~~~~*~~~~GGGGGGGGGGGGGGGGGGGGGGGGGGGGGGGGGGGGG",
    "MMGGGTTGGGGGGGGTTTGGGGGGGGGGGGGG~~~~~~~~~GGGGGGGGGGGGGGGGGGGpppppGGGGGGGGGGGGG",
    "MMMGGGGGGTTGGGGGGTTGGGGGGGGTGGGGG~~~~~~~~~GGGGGGGGGGGGGGTGGpppppppGGGGGGGGGGGG",
    "MMMGGTTTTTTTGGGGGGGTTTGGGGGGGGGGG~~~~~~~~~GGGGGGGGGGGGGGGGpppppppppGGGGGGGGGGG",
    "MMMMGGGGTTTGGGGGGTTTTGGGGGGGGGGGGG~*~~~~~~~GGGGGGGGGGGGGGGpppppppppGGGGGGGGGGG",
    "MMMMGTTTGGGGGGGGGGGGGGGGGGGGGGGGGG~~~~~~~~~GGGGGGGGGGGGGGGGpppppppGGGGGGGGGGGG",
    "MMMMGGGGGTTTTGGGGTTGGGGGGGGGGGGGGG~~~~~*~~~GGGGGGGGGGGGGGGGTpppppGGGGGGGGGGGGG",
    "MMMMMGGGGGGGTTTTTGGGGGGGGGGGGGGGGG~~~~~~~~~GGGGGGGGGGGGGGGGGGGGGGGGGGGGGGGGGGG",
    "MMMMMMMGGTTGTTTTTGTTGGTTGGGGTGGGGGGG~~~~~~~~~GGGGGGGGGGGGGGGGGGGGGGGGTGGGGGGGG",
    "MMMMMMMGGGTTTTGGGTTTTTTGGGTTGGGGGGGGG~*~~~~~~~GGGGGGGGGTTGGGGGGGGGGGGGGGGGGGGG",
    "MMMMMMMmmmmmmMMMMMMMMMMMMMGGTTTGGGGTGGG~~~~~~~~~GGGGGGGGGGGGGGGGTGGGGGGGGGGGGG",
    "MMMMMMMMMMMMMMMMMMMMMMMMMMMMMMMMMGGGGGGG~~~~~~~~~GGGGGGGGGGGGGGGGGGGGGGGGGGGGG"
>>

\* len(VILLAGE_MAP) and len(VILLAGE_MAP[0]); VILLAGE_MAP[y][x]
MapHeight == Len(VILLAGE_MAP)
MapWidth == Len(VILLAGE_MAP[1])
MapChar(x, y) == SubSeq(VILLAGE_MAP[y + 1], x + 1, x + 1)

(***************************************************************************)
(* calculate_camera_offset.  A position is <<x, y>>; the result is         *)
(* <<-camera_x, -camera_y>>.                                               *)
(***************************************************************************)
\* One axis: the camera position for a player coordinate, a map dimension and
\* a screen dimension.
camera_axis_unclamped(p, map_dim, screen_dim) == p - (screen_dim - 4) \div 2

camera_axis_no_border(p, map_dim, screen_dim) ==
    Max(0, Min(p - (screen_dim - 4) \div 2, map_dim - screen_dim))

camera_axis(p, map_dim, screen_dim) ==
    Max(0, Min(p - (screen_dim - 4) \div 2, map_dim - (screen_dim - 4)))

calculate_camera_offset(player_pos, map_width, map_height, screen_width, screen_height) ==
    << -camera_axis(player_pos[1], map_width, screen_width),
       -camera_axis(player_pos[2], map_height, screen_height) >>

\* draw_village_map, one axis: the map coordinates c whose terrain is drawn,
\* range(start, end) filtered by 0 <= c < len(map_row) and the test on the
\* screen coordinate c + offset + 2.
VisibleRange(offset, map_dim, screen_dim) ==
    LET start == Max(0, -offset - 2)
        end == Min(map_dim, -offset + screen_dim - 2)
    IN  {c \in start..(end - 1) :
            /\ 0 <= c /\ c < map_dim
            /\ 2 <= c + offset + 2 /\ c + offset + 2 < screen_dim - 2}

(***************************************************************************)
(* The camera specification: calculate_camera_offset called once, on maps  *)
(* of up to CamMaxMap x CamMaxMap tiles with viewports of up to CamMaxView *)
(* x CamMaxView cells, and on the village map with the game's screen.      *)
(***************************************************************************)
CamCall(pos, mw, mh, sw, sh) ==
    [called |-> FALSE, player_pos |-> pos, map_width |-> mw, map_height |-> mh,
     screen_width |-> sw, screen_height |-> sh, result |-> <<0, 0>>]

CamInit ==
    /\ BufIdle /\ GameIdle /\ DrawIdle /\ StatusIdle /\ InputIdle
    /\ \/ \E mw \in 1..CamMaxMap, mh \in 1..CamMaxMap,
             vw \in 1..CamMaxView, vh \in 1..CamMaxView :
             \E px \in 0..(mw - 1), py \in 0..(mh - 1) :
                cam = CamCall(<<px, py>>, mw, mh, vw + 4, vh + 4)
       \/ \E px \in 0..(MapWidth - 1), py \in 0..(MapHeight - 1) :
             cam = CamCall(<<px, py>>, MapWidth, MapHeight, MAIN_AREA_WIDTH, SCREEN_HEIGHT)

CalcCamera ==
    /\ ~cam.called
    /\ cam' = [cam EXCEPT !.called = TRUE,
                          !.result = calculate_camera_offset(
                              cam.player_pos, cam.map_width, cam.map_height,
                              cam.screen_width, cam.screen_height)]
    /\ UNCHANGED <<bufVars, gameVars, drawVars, statusVars, inputVars>>

CamNext == CalcCamera

SpecCam == CamInit /\ [][CamNext]_vars

\* C7 on one axis: with o the offset, p the player coordinate, m the map
\* dimension and v the viewport dimension (screen dimension minus 4).
CameraAxisOk(o, p, m, s) ==
    LET v == s - 4
        ideal == p - v \div 2
        visible == VisibleRange(o, m, s)
    IN  /\ m >= v => (0 <= -o /\ -o <= m - v)
        /\ (m >= v /\ 0 <= ideal /\ ideal <= m - v) => -o = ideal
        /\ m < v => -o = 0
        /\ visible \subseteq 0..(m - 1)
        /\ m >= v => visible = (-o)..(-o + v - 1)
        /\ m < v => visible = 0..(m - 1)

\* C7: calculate_camera_offset returns (ox, oy) with 0 <= -o <= map - viewport
\* on each axis where the map is at least as large as the viewport (viewport =
\* screen - 4), -o = player - viewport // 2 where that lies in the range, and
\* -o = 0 where the map is smaller than the viewport; the map cells drawn by
\* draw_village_map are then inside the map (the whole viewport when the map
\* is at least as large, the whole map otherwise).
C7_CameraClamped ==
    cam.called =>
        /\ CameraAxisOk(cam.result[1], cam.player_pos[1], cam.map_width, cam.screen_width)
        /\ CameraAxisOk(cam.result[2], cam.player_pos[2], cam.map_height, cam.screen_height)

\* The camera was computed for the player at (50, 10) on the village map
\* (clamped at the right edge, centred vertically).
C7_Witness ==
    /\ cam.called
    /\ cam.map_width = MapWidth /\ cam.screen_width = MAIN_AREA_WIDTH
    /\ cam.player_pos = <<50, 10>>
    /\ cam.result = <<-14, 0>>

(***************************************************************************)
(* class EnhancedGameState.  The object is a record; a method that changes *)
(* it is an operator from the record to the changed record.  The objects   *)
(* dictionary is a function from positions <<x, y>> to GameObject records. *)
(***************************************************************************)
NO_TIME == -1    \* regrowth_time = None

EnhancedGameState ==
    [player_pos       |-> <<50, 10>>,
     player_direction |-> "DOWN",
     energy           |-> 150,
     max_energy       |-> 150,
     money            |-> 100,
     current_tool     |-> "NONE",
     inventory        |-> [wood |-> 0, stone |-> 0, seeds |-> 0, crops |-> 0],
     tools            |-> [AXE |-> TRUE, HOE |-> TRUE, SEEDS |-> FALSE,
                           WATERING_CAN |-> FALSE],
     time_hours       |-> 6,
     time_minutes     |-> 0,
     day              |-> 1,
     show_minimap     |-> TRUE,
     status_message   |-> "",
     status_color     |-> "BRIGHT_WHITE",
     status_timeout   |-> 0,
     objects          |-> <<>>]

\* @dataclass GameObject(x, y, tile_type) with its defaults; x and y are the
\* key of the object in the dictionary.
GameObject(obj_type) ==
    [tile_type |-> obj_type, health |-> 100, growth_time |-> 0,
     water_level |-> 0, regrowth_time |-> NO_TIME]

set_status_keep_timeout(gs, message, color, timeout) ==
    [gs EXCEPT !.status_message = message,
               !.status_color = color,
               !.status_timeout = IF @ > 0 THEN @ ELSE timeout]

set_status(gs, message, color, timeout) ==
    [gs EXCEPT !.status_message = message,
               !.status_color = color,
               !.status_timeout = timeout]

update_status_clear_late(gs) ==
    IF gs.status_timeout > 0
    THEN [gs EXCEPT !.status_timeout = @ - 1]
    ELSE [gs EXCEPT !.status_message = "", !.status_color = "BRIGHT_WHITE"]

update_status(gs) ==
    IF gs.status_timeout > 0
    THEN IF gs.status_timeout - 1 = 0
         THEN [gs EXCEPT !.status_timeout = 0,
                         !.status_message = "",
                         !.status_color = "BRIGHT_WHITE"]
         ELSE [gs EXCEPT !.status_timeout = @ - 1]
    ELSE gs

\* update_time: the while loop carries minutes into hours; a single test
\* resets the hours at 24.
update_time(gs, minutes_passed) ==
    LET m == gs.time_minutes + minutes_passed
        h == gs.time_hours + (IF m >= 60 THEN m \div 60 ELSE 0)
    IN  [gs EXCEPT !.time_minutes = IF m >= 60 THEN m % 60 ELSE m,
                   !.time_hours = IF h >= 24 THEN 0 ELSE h,
                   !.day = IF h >= 24 THEN @ + 1 ELSE @]

\* use_energy returns whether it succeeded (CanUseEnergy) and changes the
\* state (use_energy).
CanUseEnergy(gs, amount) == gs.energy >= amount

\* use_energy without the test of the energy left.
use_energy_unchecked(gs, amount) ==
    [gs EXCEPT !.energy = @ - amount]

use_energy(gs, amount) ==
    IF gs.energy >= amount
    THEN [gs EXCEPT !.energy = @ - amount]
    ELSE set_status(gs, "Too tired!", "BRIGHT_RED", 30)

\* A dictionary d with d[key] = value set.
DictSet(d, key, value) ==
    [k \in DOMAIN d \cup {key} |-> IF k = key THEN value ELSE d[k]]

DictDel(d, key) == [k \in DOMAIN d \ {key} |-> d[k]]

\* dict.get(key, default)
DictGet(d, key, default) == IF key \in DOMAIN d THEN d[key] ELSE default

add_item(gs, item, amount) ==
    set_status(
        [gs EXCEPT !.inventory =
            DictSet(@, item, IF item \in DOMAIN @ THEN @[item] + amount ELSE amount)],
        "Got " \o ToString(amount) \o " " \o item \o "!", "BRIGHT_GREEN", 30)

remove_item(gs, item, amount) ==
    IF item \in DOMAIN gs.inventory /\ gs.inventory[item] >= amount
    THEN [gs EXCEPT !.inventory =
            IF @[item] - amount = 0 THEN DictDel(@, item)
            ELSE DictSet(@, item, @[item] - amount)]
    ELSE set_status(gs, "Not enough " \o item \o "!", "BRIGHT_RED", 30)

\* select_tool returns whether it succeeded (CanSelectTool) and changes the
\* state (select_tool).
\* A selection that does not ask whether the tool is owned.
CanSelectTool_any(gs, tool_type) == tool_type \in {"AXE", "HOE", "SEEDS", "WATERING_CAN"}

CanSelectTool(gs, tool_type) == tool_type \in DOMAIN gs.tools /\ gs.tools[tool_type]

select_tool(gs, tool_type) ==
    IF CanSelectTool(gs, tool_type) THEN [gs EXCEPT !.current_tool = tool_type] ELSE gs

add_object(gs, x, y, obj_type) ==
    [gs EXCEPT !.objects = DictSet(@, <<x, y>>, GameObject(obj_type))]

HasObject(gs, x, y) == <<x, y>> \in DOMAIN gs.objects
get_object(gs, x, y) == gs.objects[<<x, y>>]

InMap(x, y) == 0 <= y /\ y < MapHeight /\ 0 <= x /\ x < MapWidth

\* map_char in 'HTMfs~'
BlockingTerrain == {"H", "T", "M", "f", "s", "~"}

WalkableObjects == {"farm_plot", "crops_seeds", "crops_growing", "crops_ready"}

\* A walkability test that does not look at the terrain.
is_position_walkable_any_terrain(gs, x, y) ==
    IF ~InMap(x, y) THEN FALSE
    ELSE IF HasObject(gs, x, y) THEN get_object(gs, x, y).tile_type \in WalkableObjects
    ELSE TRUE

is_position_walkable(gs, x, y) ==
    IF ~InMap(x, y) THEN FALSE
    ELSE IF MapChar(x, y) \in BlockingTerrain THEN FALSE
    ELSE IF HasObject(gs, x, y) THEN get_object(gs, x, y).tile_type \in WalkableObjects
    ELSE TRUE

\* The minute of the day as GameObject.update and the tool handlers compute it.
CurrentTime(gs) == gs.time_hours * 60 + gs.time_minutes

\* GameObject.update, on the object at position pos.
object_update(obj, gs) ==
    IF obj.tile_type = "stump" /\ obj.regrowth_time # NO_TIME
       /\ CurrentTime(gs) >= obj.regrowth_time
    THEN [obj EXCEPT !.tile_type = "tree", !.health = 100, !.regrowth_time = NO_TIME]
    ELSE obj

\* for obj in list(game_state.objects.values()): obj.update(game_state)
update_objects(gs) ==
    [gs EXCEPT !.objects = [pos \in DOMAIN @ |-> object_update(@[pos], gs)]]

\* GameObject.can_interact
can_interact(obj) ==
    IF obj.tile_type = "tree" THEN obj.health > 0
    ELSE IF obj.tile_type = "farm_plot" THEN TRUE
    ELSE IF obj.tile_type = "crops_ready" THEN TRUE
    ELSE FALSE

Delta(direction) ==
    CASE direction = "UP" -> <<0, -1>>
      [] direction = "DOWN" -> <<0, 1>>
      [] direction = "LEFT" -> <<-1, 0>>
      [] direction = "RIGHT" -> <<1, 0>>

get_interaction_position(player_pos, direction) ==
    <<player_pos[1] + Delta(direction)[1], player_pos[2] + Delta(direction)[2]>>

(***************************************************************************)
(* The input handlers.  A key is the string getch returns; chr(27) is      *)
(* written "ESC" and '\r' "ENTER".                                         *)
(***************************************************************************)
\* DIRECTIONS
DIRECTIONS == [w |-> <<0, -1>>, s |-> <<0, 1>>, a |-> <<-1, 0>>, d |-> <<1, 0>>]

KeyDirection(key) ==
    CASE key = "w" -> "UP"
      [] key = "d" -> "RIGHT"
      [] key = "s" -> "DOWN"
      [] key = "a" -> "LEFT"

\* str.lower() on the keys of the model
Lower(key) ==
    CASE key = "W" -> "w"
      [] key = "A" -> "a"
      [] key = "S" -> "s"
      [] key = "D" -> "d"
      [] key = "F" -> "f"
      [] key = "M" -> "m"
      [] key = "Q" -> "q"
      [] OTHER -> key

\* ToolType.name.title() and ToolType.name.lower()
ToolTitle(tool) ==
    CASE tool = "AXE" -> "Axe"
      [] tool = "HOE" -> "Hoe"
      [] tool = "SEEDS" -> "Seeds"
      [] tool = "WATERING_CAN" -> "Watering_Can"
      [] tool = "NONE" -> "None"

ToolLower(tool) ==
    CASE tool = "AXE" -> "axe"
      [] tool = "HOE" -> "hoe"
      [] tool = "SEEDS" -> "seeds"
      [] tool = "WATERING_CAN" -> "watering_can"
      [] tool = "NONE" -> "none"

handle_collision(gs, x, y) ==
    IF 0 <= y /\ y < MapHeight /\ 0 <= x /\ x < Len(VILLAGE_MAP[y + 1])
    THEN LET terrain == MapChar(x, y)
         IN  CASE terrain = "H" ->
                    set_status(gs, "Press F to enter house", "BRIGHT_YELLOW", 30)
               [] terrain = "T" ->
                    set_status(gs, "Use axe to cut tree", "BRIGHT_YELLOW", 30)
               [] terrain = "~" ->
                    set_status(gs, "Can't swim in water!", "BRIGHT_BLUE", 30)
               [] terrain = "m" ->
                    set_status(gs, "Press F to enter mine", "BRIGHT_YELLOW", 30)
               [] terrain = "p" ->
                    set_status(gs, "Press F to enter portal", "BRIGHT_MAGENTA", 30)
               [] OTHER ->
                    set_status(gs, "Can't walk there!", "BRIGHT_RED", 30)
    ELSE set_status(gs, "Can't leave the map!", "BRIGHT_RED", 30)

\* The tools dictionary of handle_tool_selection
ToolOfKey(key) ==
    CASE key = "1" -> "AXE"
      [] key = "2" -> "HOE"
      [] key = "3" -> "SEEDS"
      [] key = "4" -> "WATERING_CAN"
      [] key = "5" -> "NONE"

handle_tool_selection(gs, key) ==
    IF key \in {"1", "2", "3", "4", "5"}
    THEN LET tool == ToolOfKey(key)
         IN  IF CanSelectTool(gs, tool)
             THEN IF tool = "NONE"
                  THEN set_status(select_tool(gs, tool), "Tools unequipped",
                                  "BRIGHT_WHITE", 30)
                  ELSE set_status(select_tool(gs, tool), ToolTitle(tool) \o " equipped!",
                                  "BRIGHT_GREEN", 30)
             ELSE set_status(gs, "You don't have a " \o ToolLower(tool) \o " yet!",
                             "BRIGHT_RED", 30)
    ELSE gs

\* A strike that takes 50 health.
axe_strike_half(gs, x, y, wood_amount) ==
    LET g1 == IF ~HasObject(gs, x, y) THEN add_object(gs, x, y, "tree") ELSE gs
        health == Max(0, get_object(g1, x, y).health - 50)
        g2 == [g1 EXCEPT !.objects[<<x, y>>].health = health]
    IN  IF health <= 0
        THEN LET g3 == add_item(g2, "wood", wood_amount)
                 g4 == [g3 EXCEPT !.objects[<<x, y>>].tile_type = "stump",
                                  !.objects[<<x, y>>].regrowth_time =
                                       (g3.time_hours * 60) + g3.time_minutes + 60]
             IN  set_status(g4, "Got " \o ToString(wood_amount) \o " wood!",
                            "BRIGHT_GREEN", 30)
        ELSE set_status(g2, "Tree health: " \o ToString(health) \o "%",
                        "BRIGHT_YELLOW", 30)

\* handle_tool_use, the AXE branch on the tile (x, y) once the condition
\* map_tile == 'T' or (obj and obj.tile_type == 'tree') holds; wood_amount is
\* the value random.randint(2, 4) returns.
axe_strike(gs, x, y, wood_amount) ==
    LET g1 == IF ~HasObject(gs, x, y) THEN add_object(gs, x, y, "tree") ELSE gs
        health == Max(0, get_object(g1, x, y).health - 34)
        g2 == [g1 EXCEPT !.objects[<<x, y>>].health = health]
    IN  IF health <= 0
        THEN LET g3 == add_item(g2, "wood", wood_amount)
                 g4 == [g3 EXCEPT !.objects[<<x, y>>].tile_type = "stump",
                                  !.objects[<<x, y>>].regrowth_time =
                                       (g3.time_hours * 60) + g3.time_minutes + 60]
             IN  set_status(g4, "Got " \o ToString(wood_amount) \o " wood!",
                            "BRIGHT_GREEN", 30)
        ELSE set_status(g2, "Tree health: " \o ToString(health) \o "%",
                        "BRIGHT_YELLOW", 30)

\* handle_tool_use after the energy was spent: the branches on the tool.
apply_current_tool(gs, x, y, wood_amount) ==
    LET map_tile == MapChar(x, y)
        has == HasObject(gs, x, y)
        cant == set_status(gs, "Can't use tool here!", "BRIGHT_RED", 30)
    IN  CASE gs.current_tool = "AXE" ->
               IF map_tile = "T" \/ (has /\ get_object(gs, x, y).tile_type = "tree")
               THEN axe_strike(gs, x, y, wood_amount)
               ELSE cant
          [] gs.current_tool = "HOE" ->
               IF map_tile = "G" /\ ~has
               THEN set_status(add_object(gs, x, y, "farm_plot"),
                               "Created farm plot!", "BRIGHT_GREEN", 30)
               ELSE cant
          [] gs.current_tool = "SEEDS" ->
               IF has /\ get_object(gs, x, y).tile_type = "farm_plot"
               THEN IF DictGet(gs.inventory, "seeds", 0) > 0
                    THEN set_status(
                            [remove_item(gs, "seeds", 1) EXCEPT
                                !.objects[<<x, y>>].tile_type = "crops_seeds",
                                !.objects[<<x, y>>].growth_time = 0],
                            "Planted seeds!", "BRIGHT_GREEN", 30)
                    ELSE set_status(gs, "No seeds!", "BRIGHT_RED", 30)
               ELSE cant
          [] OTHER -> cant

handle_tool_use(gs, wood_amount) ==
    LET pos == get_interaction_position(gs.player_pos, gs.player_direction)
    IN  IF gs.current_tool = "NONE"
        THEN set_status(gs, "Select a tool first! (1-4)", "BRIGHT_YELLOW", 30)
        ELSE IF ~InMap(pos[1], pos[2])
        THEN set_status(gs, "Can't use tool here!", "BRIGHT_RED", 30)
        ELSE IF ~CanUseEnergy(gs, 5)
        THEN use_energy(gs, 5)
        ELSE apply_current_tool(use_energy(gs, 5), pos[1], pos[2], wood_amount)

\* ItemType.get_base_price('wood')
WoodPrice == 5

\* A sale that leaves one piece of wood in the inventory.
handle_shop_interaction_keeps_one(gs) ==
    LET pos == get_interaction_position(gs.player_pos, gs.player_direction)
        wood_amount == DictGet(gs.inventory, "wood", 0)
        money_earned == wood_amount * WoodPrice
    IN  IF InMap(pos[1], pos[2]) /\ MapChar(pos[1], pos[2]) = "s"
        THEN IF wood_amount > 0
             THEN set_status(
                     [gs EXCEPT !.inventory = DictSet(@, "wood", 1),
                                !.money = @ + money_earned],
                     "Sold " \o ToString(wood_amount) \o " wood for $"
                        \o ToString(money_earned) \o "!",
                     "BRIGHT_GREEN", 60)
             ELSE set_status(gs, "No wood to sell!", "BRIGHT_YELLOW", 30)
        ELSE gs

handle_shop_interaction(gs) ==
    LET pos == get_interaction_position(gs.player_pos, gs.player_direction)
        wood_amount == DictGet(gs.inventory, "wood", 0)
        money_earned == wood_amount * WoodPrice
    IN  IF InMap(pos[1], pos[2]) /\ MapChar(pos[1], pos[2]) = "s"
        THEN IF wood_amount > 0
             THEN set_status(
                     [gs EXCEPT !.inventory = DictSet(@, "wood", 0),
                                !.money = @ + money_earned],
                     "Sold " \o ToString(wood_amount) \o " wood for $"
                        \o ToString(money_earned) \o "!",
                     "BRIGHT_GREEN", 60)
             ELSE set_status(gs, "No wood to sell!", "BRIGHT_YELLOW", 30)
        ELSE gs

\* handle_interaction raises AttributeError where it calls obj.harvest(), which
\* GameObject does not define.
InteractionRaises(gs, key) ==
    LET pos == get_interaction_position(gs.player_pos, gs.player_direction)
    IN  /\ key \in {"f", "F"}
        /\ InMap(pos[1], pos[2])
        /\ MapChar(pos[1], pos[2]) \notin {"H", "s"}
        /\ HasObject(gs, pos[1], pos[2])
        /\ can_interact(get_object(gs, pos[1], pos[2]))
        /\ get_object(gs, pos[1], pos[2]).tile_type = "crops_ready"

\* An interaction in which a sleep takes two days.
handle_interaction_two_days(gs, key) ==
    LET pos == get_interaction_position(gs.player_pos, gs.player_direction)
    IN  IF key \notin {"f", "F"} THEN gs
        ELSE IF ~InMap(pos[1], pos[2]) THEN gs
        ELSE IF MapChar(pos[1], pos[2]) = "H"
        THEN set_status(
                [gs EXCEPT !.energy = gs.max_energy,
                           !.time_hours = @ + 8,
                           !.time_minutes = 0,
                           !.day = @ + 2],
                "Got a good night's sleep! Energy restored.", "BRIGHT_GREEN", 60)
        ELSE IF MapChar(pos[1], pos[2]) = "s"
        THEN handle_shop_interaction(gs)
        ELSE gs

handle_interaction(gs, key) ==
    LET pos == get_interaction_position(gs.player_pos, gs.player_direction)
    IN  IF key \notin {"f", "F"} THEN gs
        ELSE IF ~InMap(pos[1], pos[2]) THEN gs
        ELSE IF MapChar(pos[1], pos[2]) = "H"
        THEN set_status(
                [gs EXCEPT !.energy = gs.max_energy,
                           !.time_hours = @ + 8,
                           !.time_minutes = 0,
                           !.day = @ + 1],
                "Got a good night's sleep! Energy restored.", "BRIGHT_GREEN", 60)
        ELSE IF MapChar(pos[1], pos[2]) = "s"
        THEN handle_shop_interaction(gs)
        ELSE gs

\* A movement branch in which a blocked step costs 1 energy.
move_blocked_costs(gs, key) ==
    LET g1 == [gs EXCEPT !.player_direction = KeyDirection(key)]
        new_x == gs.player_pos[1] + DIRECTIONS[key][1]
        new_y == gs.player_pos[2] + DIRECTIONS[key][2]
    IN  IF is_position_walkable(g1, new_x, new_y)
        THEN LET g2 == [g1 EXCEPT !.player_pos = <<new_x, new_y>>]
             IN  IF CanUseEnergy(g2, 1)
                 THEN update_time(use_energy(g2, 1), 1)
                 ELSE use_energy(g2, 1)
        ELSE handle_collision(use_energy(g1, 1), new_x, new_y)

\* handle_gameplay_input, the movement branch.
move(gs, key) ==
    LET g1 == [gs EXCEPT !.player_direction = KeyDirection(key)]
        new_x == gs.player_pos[1] + DIRECTIONS[key][1]
        new_y == gs.player_pos[2] + DIRECTIONS[key][2]
    IN  IF is_position_walkable(g1, new_x, new_y)
        THEN LET g2 == [g1 EXCEPT !.player_pos = <<new_x, new_y>>]
             IN  IF CanUseEnergy(g2, 1)
                 THEN update_time(use_energy(g2, 1), 1)
                 ELSE use_energy(g2, 1)
        ELSE handle_collision(g1, new_x, new_y)

handle_gameplay_input(gs, key, wood_amount) ==
    IF key \in DOMAIN DIRECTIONS THEN move(gs, key)
    ELSE IF key \in {"1", "2", "3", "4", "5"} THEN handle_tool_selection(gs, key)
    ELSE IF key = " " THEN handle_tool_use(gs, wood_amount)
    ELSE IF key = "m"
    THEN set_status([gs EXCEPT !.show_minimap = ~@],
                    IF ~gs.show_minimap THEN "Minimap shown" ELSE "Minimap hidden",
                    "BRIGHT_GREEN", 30)
    ELSE IF key = "f"
    THEN IF InteractionRaises(gs, "f")
         THEN set_status(gs, "Input error!", "BRIGHT_RED", 30)
         ELSE handle_interaction(gs, "f")
    ELSE gs

(***************************************************************************)
(* class Tiles and the terrain table.  getattr(Tiles, name) raises         *)
(* AttributeError for a name that is not an attribute of the class.        *)
(***************************************************************************)
Tiles ==
    [GRASS         |-> <<"MIDDOT", "fg(1,100,41)bg(150,210,100)">>,
     DIRT          |-> <<"SHADE", "fg(176,112,66)bg(120,91,60)">>,
     WATER         |-> <<"~", "fg(45,82,233)bg(152,209,255)">>,
     HOUSE_WALL    |-> <<"BLOCK", "fg(112,69,33)bg(150,210,100)">>,
     SHOP_WALL     |-> <<"BLOCK", "fg(140,69,33)bg(150,210,100)">>,
     HOUSE_DOOR    |-> <<"DOOR", "fg(1,100,41)bg(150,210,100)">>,
     HOUSE_WINDOW  |-> <<"DIAMOND", "fg(1,100,41)bg(150,210,100)">>,
     TREE          |-> <<"CLUB", "fg(1,100,41)bg(150,210,100)">>,
     STUMP         |-> <<"STUMP_GLYPH", "fg(112,69,33)bg(150,210,100)">>,
     CROPS_SEEDS   |-> <<",", "fg(1,100,41)bg(150,210,100)">>,
     CROPS_GROWING |-> <<"OMEGA", "fg(1,100,41)bg(150,210,100)">>,
     CROPS_READY   |-> <<"PSI", "fg(1,100,41)bg(150,210,100)">>,
     PATH          |-> <<"TRIPLE_BAR", "fg(120,120,120)bg(160,160,160)">>,
     FENCE         |-> <<"+", "fg(46,29,17)bg(150,210,100)">>,
     PLAYER        |-> <<"TRI_UP_RIGHT_DOWN_LEFT", "fg(255,0,0)">>,
     WATER_LILY    |-> <<"*", "fg(254,147,147)bg(152,209,255)">>,
     MOUNTAIN      |-> <<"BLOCK", "fg(100,100,100)bg(150,210,100)">>,
     PORTAL        |-> <<"SPIRAL", "fg(255,0,255)">>,
     MINE_ENTRANCE |-> <<"BLOCK", "fg(60,60,60)bg(60,60,60)">>]

\* str.upper() on the tile types the program uses
Upper(tile_type) ==
    CASE tile_type = "tree" -> "TREE"
      [] tile_type = "stump" -> "STUMP"
      [] tile_type = "farm_plot" -> "FARM_PLOT"
      [] tile_type = "crops_seeds" -> "CROPS_SEEDS"
      [] tile_type = "crops_growing" -> "CROPS_GROWING"
      [] tile_type = "crops_ready" -> "CROPS_READY"

\* hasattr(Tiles, name)
TilesHas(name) == name \in DOMAIN Tiles

convert_map_char_to_tile(char) ==
    CASE char = "G" -> Tiles.GRASS
      [] char = "D" -> Tiles.HOUSE_DOOR
      [] char = "W" -> Tiles.HOUSE_WINDOW
      [] char = "H" -> Tiles.HOUSE_WALL
      [] char = "T" -> Tiles.TREE
      [] char = "F" -> Tiles.DIRT
      [] char = "S" -> Tiles.CROPS_SEEDS
      [] char = "P" -> Tiles.PATH
      [] char = "~" -> Tiles.WATER
      [] char = "*" -> Tiles.WATER_LILY
      [] char = "@" -> Tiles.PLAYER
      [] char = "M" -> Tiles.MOUNTAIN
      [] char = "f" -> Tiles.FENCE
      [] char = "s" -> Tiles.SHOP_WALL
      [] char = "p" -> Tiles.PORTAL
      [] char = "m" -> Tiles.MINE_ENTRANCE
      [] OTHER -> Tiles.GRASS

(***************************************************************************)
(* The draw passes of a playing frame.  Each is an operator from the       *)
(* ScreenBuffer to the ScreenBuffer after the pass.  An exception raised   *)
(* in a pass sets the field raised; nothing is written after that.         *)
(***************************************************************************)
\* draw_border: the two loops over x and the three over y, then the corners.
\* A loop over a range is walked as its first half and then its second half.
\* for x in range(x, end): the top and the bottom border
RECURSIVE border_rows(_, _, _)
border_rows(scr, x, end) ==
    IF x >= end \/ scr.raised THEN scr
    ELSE IF x + 1 = end
    THEN draw_char(draw_char(scr, x, 0, "BOX_H", "YELLOW"),
                   x, scr.height - 1, "BOX_H", "YELLOW")
    ELSE border_rows(border_rows(scr, x, (x + end) \div 2), (x + end) \div 2, end)

\* for y in range(y, end): the vertical borders in the columns xs
RECURSIVE border_columns(_, _, _, _)
border_columns(scr, xs, y, end) ==
    IF y >= end \/ scr.raised THEN scr
    ELSE IF y + 1 = end
    THEN LET RECURSIVE cols(_, _)
             cols(s, i) == IF i > Len(xs) \/ s.raised THEN s
                           ELSE cols(draw_char(s, xs[i], y, "BOX_V", "YELLOW"), i + 1)
         IN  cols(scr, 1)
    ELSE border_columns(border_columns(scr, xs, y, (y + end) \div 2),
                        xs, (y + end) \div 2, end)

\* The corners and the intersections, in the order draw_border draws them.
border_corners(scr) ==
    << <<0, 0, "BOX_TL", "YELLOW">>,
       <<MAIN_AREA_WIDTH - 1, 0, "BOX_TR", "YELLOW">>,
       <<0, scr.height - 1, "BOX_BL", "YELLOW">>,
       <<MAIN_AREA_WIDTH - 1, scr.height - 1, "BOX_BR", "YELLOW">>,
       <<MAIN_AREA_WIDTH - 1, 0, "BOX_TL", "YELLOW">>,
       <<scr.width - 1, 0, "BOX_TR", "YELLOW">>,
       <<MAIN_AREA_WIDTH - 1, scr.height - 1, "BOX_BL", "YELLOW">>,
       <<scr.width - 1, scr.height - 1, "BOX_BR", "YELLOW">>,
       <<MAIN_AREA_WIDTH - 1, 0, "BOX_T", "YELLOW">>,
       <<MAIN_AREA_WIDTH - 1, scr.height - 1, "BOX_B", "YELLOW">> >>

draw_border(scr) ==
    draw_chars(
        border_columns(
            border_rows(
                border_columns(border_rows(scr, 0, MAIN_AREA_WIDTH),
                               <<0, MAIN_AREA_WIDTH - 1>>, 0, scr.height),
                MAIN_AREA_WIDTH - 1, scr.width),
            <<scr.width - 1>>, 0, scr.height),
        border_corners(scr))

\* screen_buffer.draw_string((MAIN_AREA_WIDTH - len("Home Village")) // 2, 1,
\*                           "Home Villagge", Colors.BRIGHT_GREEN)
draw_title(scr) ==
    draw_string(scr, (MAIN_AREA_WIDTH - Len("Home Village")) \div 2, 1,
                "Home Villagge", "BRIGHT_GREEN")

\* draw_village_map, the body of the loop for map cell (x, y): the terrain
\* glyph, then the glyph of the object at (x, y).
draw_terrain_cell(scr, x, y, offset_x, offset_y) ==
    LET screen_x == x + offset_x + 2
        screen_y == y + offset_y + 2
        tile == convert_map_char_to_tile(MapChar(x, y))
    IN  IF 2 <= screen_x /\ screen_x < MAIN_AREA_WIDTH - 2
           /\ 2 <= screen_y /\ screen_y < scr.height - 2
        THEN draw_char(scr, screen_x, screen_y, tile[1], tile[2])
        ELSE scr

draw_object_cell(scr, gs, x, y, offset_x, offset_y) ==
    LET screen_x == x + offset_x + 2
        screen_y == y + offset_y + 2
    IN  IF 2 <= screen_x /\ screen_x < MAIN_AREA_WIDTH - 2
           /\ 2 <= screen_y /\ screen_y < scr.height - 2
           /\ HasObject(gs, x, y)
        THEN LET name == Upper(get_object(gs, x, y).tile_type)
             IN  IF TilesHas(name)
                 THEN draw_char(scr, screen_x, screen_y, Tiles[name][1], Tiles[name][2])
                 ELSE [scr EXCEPT !.raised = TRUE]
        ELSE scr

\* for x in range(x, end_x), on row y: the first half of the range and then
\* the second half
RECURSIVE map_row_loop(_, _, _, _, _, _, _)
map_row_loop(scr, gs, x, end_x, y, offset_x, offset_y) ==
    IF x >= end_x \/ scr.raised THEN scr
    ELSE IF x + 1 = end_x
    THEN IF 0 <= x /\ x < Len(VILLAGE_MAP[y + 1])
         THEN draw_object_cell(draw_terrain_cell(scr, x, y, offset_x, offset_y),
                               gs, x, y, offset_x, offset_y)
         ELSE scr
    ELSE map_row_loop(
            map_row_loop(scr, gs, x, (x + end_x) \div 2, y, offset_x, offset_y),
            gs, (x + end_x) \div 2, end_x, y, offset_x, offset_y)

\* for y in range(y, end_y): the first half of the range and then the second
\* half
RECURSIVE map_loop(_, _, _, _, _, _, _, _)
map_loop(scr, gs, y, end_y, start_x, end_x, offset_x, offset_y) ==
    IF y >= end_y \/ scr.raised THEN scr
    ELSE IF y + 1 = end_y
    THEN map_row_loop(scr, gs, start_x, end_x, y, offset_x, offset_y)
    ELSE map_loop(
            map_loop(scr, gs, y, (y + end_y) \div 2, start_x, end_x, offset_x, offset_y),
            gs, (y + end_y) \div 2, end_y, start_x, end_x, offset_x, offset_y)

\* player_chars[game_state.player_direction.value]
player_char(direction) ==
    CASE direction = "UP" -> "TRI_UP"
      [] direction = "RIGHT" -> "TRI_RIGHT"
      [] direction = "DOWN" -> "TRI_DOWN"
      [] direction = "LEFT" -> "TRI_LEFT"

draw_player(scr, gs, offset_x, offset_y) ==
    LET player_screen_x == gs.player_pos[1] + offset_x + 2
        player_screen_y == gs.player_pos[2] + offset_y + 2
    IN  IF 2 <= player_screen_x /\ player_screen_x < MAIN_AREA_WIDTH - 2
           /\ 2 <= player_screen_y /\ player_screen_y < scr.height - 2
        THEN draw_char(scr, player_screen_x, player_screen_y,
                       player_char(gs.player_direction), "fg(255,0,0)")
        ELSE scr

\* draw_minimap.  The minimap is minimap_width x minimap_height cells at
\* (minimap_x, minimap_y), inside a frame one cell wide.
minimap_width == 12
minimap_height == 6
minimap_x == 3
minimap_y == 3

\* for y in range(minimap_height + 2): for x in range(minimap_width + 2).
\* A loop over a range is walked as its first half and then its second half.
RECURSIVE minimap_background_row(_, _, _, _)
minimap_background_row(scr, x, end, y) ==
    IF x >= end \/ scr.raised THEN scr
    ELSE IF x + 1 = end
    THEN draw_char(scr, minimap_x - 1 + x, minimap_y - 1 + y, " ", "BG_BLACK")
    ELSE minimap_background_row(minimap_background_row(scr, x, (x + end) \div 2, y),
                                (x + end) \div 2, end, y)

RECURSIVE minimap_background(_, _, _)
minimap_background(scr, y, end) ==
    IF y >= end \/ scr.raised THEN scr
    ELSE IF y + 1 = end THEN minimap_background_row(scr, 0, minimap_width + 2, y)
    ELSE minimap_background(minimap_background(scr, y, (y + end) \div 2),
                            (y + end) \div 2, end)

\* The four corners of the frame.
minimap_corners ==
    << <<minimap_x - 1, minimap_y - 1, "BOX_TL", "BRIGHT_BLACK">>,
       <<minimap_x + minimap_width, minimap_y - 1, "BOX_TR", "BRIGHT_BLACK">>,
       <<minimap_x - 1, minimap_y + minimap_height, "BOX_BL", "BRIGHT_BLACK">>,
       <<minimap_x + minimap_width, minimap_y + minimap_height, "BOX_BR", "BRIGHT_BLACK">> >>

\* for x in range(minimap_width): the horizontal borders
RECURSIVE minimap_horizontal(_, _, _)
minimap_horizontal(scr, x, end) ==
    IF x >= end \/ scr.raised THEN scr
    ELSE IF x + 1 = end
    THEN draw_char(draw_char(scr, minimap_x + x, minimap_y - 1, "BOX_H", "BRIGHT_BLACK"),
                   minimap_x + x, minimap_y + minimap_height, "BOX_H", "BRIGHT_BLACK")
    ELSE minimap_horizontal(minimap_horizontal(scr, x, (x + end) \div 2),
                            (x + end) \div 2, end)

\* for y in range(minimap_height): the vertical borders
RECURSIVE minimap_vertical(_, _, _)
minimap_vertical(scr, y, end) ==
    IF y >= end \/ scr.raised THEN scr
    ELSE IF y + 1 = end
    THEN draw_char(draw_char(scr, minimap_x - 1, minimap_y + y, "BOX_V", "BRIGHT_BLACK"),
                   minimap_x + minimap_width, minimap_y + y, "BOX_V", "BRIGHT_BLACK")
    ELSE minimap_vertical(minimap_vertical(scr, y, (y + end) \div 2),
                          (y + end) \div 2, end)

\* The glyph and style of a map character on the minimap.
minimap_tile(char) ==
    CASE char = "H" -> <<"SQUARE", "RED">>
      [] char = "~" -> <<"APPROX", "BRIGHT_BLUE">>
      [] char = "T" -> <<"CLUB", "GREEN">>
      [] char = "P" -> <<"=", "YELLOW">>
      [] char = "F" -> <<"#", "YELLOW">>
      [] OTHER -> <<"MIDDOT", "BRIGHT_BLACK">>

\* int(x * scale_x) with scale_x = map_width / minimap_width, and
\* int(y * scale_y) with scale_y = map_height / minimap_height
minimap_map_x(x) == (x * MapWidth) \div minimap_width
minimap_map_y(y) == (y * MapHeight) \div minimap_height

\* for y in range(minimap_height): for x in range(minimap_width)
RECURSIVE minimap_content_row(_, _, _, _)
minimap_content_row(scr, x, end, y) ==
    IF x >= end \/ scr.raised THEN scr
    ELSE IF x + 1 = end
    THEN LET map_x == minimap_map_x(x)
             map_y == minimap_map_y(y)
         IN  IF map_y < MapHeight /\ map_x < MapWidth
             THEN draw_char(scr, minimap_x + x, minimap_y + y,
                            minimap_tile(MapChar(map_x, map_y))[1],
                            minimap_tile(MapChar(map_x, map_y))[2])
             ELSE scr
    ELSE minimap_content_row(minimap_content_row(scr, x, (x + end) \div 2, y),
                             (x + end) \div 2, end, y)

RECURSIVE minimap_content(_, _, _)
minimap_content(scr, y, end) ==
    IF y >= end \/ scr.raised THEN scr
    ELSE IF y + 1 = end THEN minimap_content_row(scr, 0, minimap_width, y)
    ELSE minimap_content(minimap_content(scr, y, (y + end) \div 2),
                         (y + end) \div 2, end)

\* The marker of the player on the minimap.
minimap_player(scr, gs) ==
    LET minimap_player_x == minimap_x + (gs.player_pos[1] * minimap_width) \div MapWidth
        minimap_player_y == minimap_y + (gs.player_pos[2] * minimap_height) \div MapHeight
    IN  IF minimap_x <= minimap_player_x
           /\ minimap_player_x < minimap_x + minimap_width
           /\ minimap_y <= minimap_player_y
           /\ minimap_player_y < minimap_y + minimap_height
        THEN draw_char(scr, minimap_player_x, minimap_player_y, "SMILEY", "BRIGHT_CYAN")
        ELSE scr

draw_minimap(scr, gs) ==
    IF ~gs.show_minimap THEN scr
    ELSE LET map_text == "Mini Map (M)"
         IN  draw_string(
                minimap_player(
                    minimap_content(
                        minimap_vertical(
                            minimap_horizontal(
                                draw_chars(minimap_background(scr, 0, minimap_height + 2),
                                           minimap_corners),
                                0, minimap_width),
                            0, minimap_height),
                        0, minimap_height),
                    gs),
                minimap_x + (minimap_width - Len(map_text)) \div 2,
                minimap_y - 2, map_text, "BRIGHT_BLACK")

\* draw_village_map up to the end of the loop over the map cells.
draw_map_cells(scr, gs) ==
    LET offset == calculate_camera_offset(gs.player_pos, MapWidth, MapHeight,
                                          MAIN_AREA_WIDTH, scr.height)
        start_y == Max(0, -offset[2] - 2)
        end_y == Min(MapHeight, -offset[2] + scr.height - 2)
        start_x == Max(0, -offset[1] - 2)
        end_x == Min(MapWidth, -offset[1] + MAIN_AREA_WIDTH - 2)
    IN  map_loop(scr, gs, start_y, end_y, start_x, end_x, offset[1], offset[2])

\* The minimap drawn before the map cells and the player.
draw_village_map_minimap_first(scr, gs) ==
    LET offset == calculate_camera_offset(gs.player_pos, MapWidth, MapHeight,
                                          MAIN_AREA_WIDTH, scr.height)
        s1 == draw_map_cells(draw_minimap(scr, gs), gs)
    IN  IF s1.raised THEN s1
        ELSE draw_player(s1, gs, offset[1], offset[2])

draw_village_map(scr, gs) ==
    LET offset == calculate_camera_offset(gs.player_pos, MapWidth, MapHeight,
                                          MAIN_AREA_WIDTH, scr.height)
        s1 == draw_map_cells(scr, gs)
    IN  IF s1.raised THEN s1
        ELSE draw_minimap(draw_player(s1, gs, offset[1], offset[2]), gs)

\* " | ".join(parts)
RECURSIVE Join(_, _)
Join(parts, sep) ==
    IF Len(parts) = 0 THEN ""
    ELSE IF Len(parts) = 1 THEN parts[1]
    ELSE parts[1] \o sep \o Join(Tail(parts), sep)

\* draw_status_line: the list controls as "key: action" strings.
status_controls(gs) ==
    LET pos == get_interaction_position(gs.player_pos, gs.player_direction)
        tool == IF gs.current_tool # "NONE"
                THEN <<"SPACE: Use " \o ToolLower(gs.current_tool)>>
                ELSE <<>>
        obj == IF HasObject(gs, pos[1], pos[2]) /\ can_interact(get_object(gs, pos[1], pos[2]))
               THEN LET t == get_object(gs, pos[1], pos[2]).tile_type
                    IN  CASE t = "crops_ready" -> <<"F: Harvest">>
                          [] t = "tree" -> <<"1: Equip axe">>
                          [] t = "farm_plot" -> <<"3: Plant seeds">>
                          [] OTHER -> <<>>
               ELSE <<>>
    IN  tool \o obj \o <<"M: Map", "Q: Quit">>

draw_status_line(scr, gs) ==
    LET available_width == MAIN_AREA_WIDTH - 4
        control_text == Join(status_controls(gs), " | ")
        message_space == Len(gs.status_message) + 2
        controls_space == Len(control_text) + 2
    IN  IF gs.status_message # ""
        THEN IF message_space + controls_space <= available_width
             THEN draw_string(
                     draw_string(scr, 2, scr.height - 2, gs.status_message, gs.status_color),
                     MAIN_AREA_WIDTH - 2 - Len(control_text), scr.height - 2,
                     control_text, "BRIGHT_WHITE")
             ELSE IF gs.status_timeout > 30
             THEN draw_string(scr, 2, scr.height - 2, gs.status_message, gs.status_color)
             ELSE draw_string(scr, 2, scr.height - 2, control_text, "BRIGHT_WHITE")
        ELSE draw_string(scr, 2, scr.height - 2, control_text, "BRIGHT_WHITE")

(***************************************************************************)
(* class UIPanel.  In its strings the glyph of the section rule is written *)
(* "-".                                                                    *)
(***************************************************************************)
\* UIPanel.x_start
x_start == MAIN_AREA_WIDTH - 1

\* char * n
RECURSIVE Repeat(_, _)
Repeat(char, n) ==
    IF n <= 0 THEN ""
    ELSE IF n = 1 THEN char
    ELSE Repeat(char, n \div 2) \o Repeat(char, n - n \div 2)

\* f"{n:02d}", f"{s:<w}" and f"{s:>w}"
Format02d(n) == IF 0 <= n /\ n < 10 THEN "0" \o ToString(n) ELSE ToString(n)
FormatLeft(str, w) == str \o Repeat(" ", w - Len(str))
FormatRight(str, w) == Repeat(" ", w - Len(str)) \o str

\* The sections: title and start_y.
sections == <<[title |-> "Status", start_y |-> 3, height |-> 4],
              [title |-> "Tools", start_y |-> 8, height |-> 4],
              [title |-> "Inventory", start_y |-> 13, height |-> 6],
              [title |-> "Info", start_y |-> 20, height |-> 3]>>

\* The draw_string call of _draw_section_header.
section_header(section) ==
    <<x_start + 2, section.start_y,
      "- " \o section.title \o " "
         \o Repeat("-", UI_PANEL_WIDTH - Len(section.title) - 6),
      "BRIGHT_BLACK">>

draw_sections(scr) ==
    draw_strings(scr, [i \in 1..Len(sections) |-> section_header(sections[i])])

get_time_string(gs) ==
    LET period == IF gs.time_hours < 12 THEN "AM" ELSE "PM"
        h == IF gs.time_hours <= 12 THEN gs.time_hours ELSE gs.time_hours - 12
        hour == IF h = 0 THEN 12 ELSE h
    IN  Format02d(hour) \o ":" \o Format02d(gs.time_minutes) \o " " \o period

\* The draw_string calls of _draw_status.
ui_status_strings(gs) ==
    LET y == sections[1].start_y + 1
    IN  << <<x_start + 2, y, "Time: " \o get_time_string(gs), "BRIGHT_GREEN">>,
           <<x_start + 2, y + 1, "Money: $" \o ToString(gs.money), "BRIGHT_YELLOW">>,
           <<x_start + 2, y + 2,
             "Energy: " \o ToString(gs.energy) \o "/" \o ToString(gs.max_energy),
             "BRIGHT_CYAN">> >>

ui_draw_status(scr, gs) == draw_strings(scr, ui_status_strings(gs))

\* The draw_string call of _draw_tools for the i-th tool of its list.
ui_tool_line(gs, i, key, name, tool) ==
    <<x_start + 2, sections[2].start_y + 1 + i,
      IF gs.current_tool = tool THEN key \o ": [" \o name \o "]"
      ELSE key \o ": " \o name,
      IF gs.current_tool = tool THEN "BRIGHT_YELLOW" ELSE "BRIGHT_WHITE">>

ui_draw_tools(scr, gs) ==
    draw_strings(scr, <<ui_tool_line(gs, 0, "1", "Axe", "AXE"),
                        ui_tool_line(gs, 1, "2", "Hoe", "HOE"),
                        ui_tool_line(gs, 2, "3", "Seeds", "SEEDS")>>)

\* game_state.inventory.items(): the keys in insertion order.  The program
\* never inserts a key after construction, so the order is that of __init__.
inventory_items(gs) ==
    SelectSeq(<<"wood", "stone", "seeds", "crops">>,
              LAMBDA item : item \in DOMAIN gs.inventory)

\* The draw_string call of _draw_inventory for the i-th item (0-based).
ui_inventory_line(gs, i) ==
    LET item == inventory_items(gs)[i + 1]
    IN  <<x_start + 2, sections[3].start_y + 1 + i,
          FormatLeft(item, 7) \o ": " \o FormatRight(ToString(gs.inventory[item]), 3),
          "BRIGHT_WHITE">>

\* The loop ends at the first i >= section.height - 2.
ui_draw_inventory(scr, gs) ==
    draw_strings(scr, [n \in 1..Min(Len(inventory_items(gs)), sections[3].height - 2)
                          |-> ui_inventory_line(gs, n - 1)])

\* The draw_string calls of _draw_info.
ui_info_strings(gs) ==
    LET y == sections[4].start_y + 1
        interact_pos == get_interaction_position(gs.player_pos, gs.player_direction)
        pos_text == "(" \o ToString(gs.player_pos[1]) \o ", "
                       \o ToString(gs.player_pos[2]) \o ")"
        face_text == "(" \o ToString(interact_pos[1]) \o ", "
                        \o ToString(interact_pos[2]) \o ")"
    IN  << <<x_start + 2, y, "Position: " \o pos_text, "BRIGHT_WHITE">>,
           <<x_start + 2, y + 1, "Face To : " \o face_text, "BRIGHT_WHITE">> >>

ui_draw_info(scr, gs) == draw_strings(scr, ui_info_strings(gs))

ui_panel_draw(scr, gs) ==
    ui_draw_info(ui_draw_inventory(ui_draw_tools(ui_draw_status(draw_sections(scr), gs),
                                                 gs), gs), gs)

\* main_game_loop, "Draw game screen": the passes up to render, in order.
draw_game_screen(scr, gs) ==
    LET s1 == draw_village_map(draw_title(draw_border(scr)), gs)
    IN  IF s1.raised THEN s1
        ELSE ui_panel_draw(draw_status_line(s1, gs), gs)

(***************************************************************************)
(* class MenuSystem, MainMenu and PauseMenu.  _last_input_time is not      *)
(* kept: whether the input cooldown of 0.1 s has passed when handle_input  *)
(* is called is the input cooled of the frame.                             *)
(***************************************************************************)
MenuSystem(items) ==
    [items |-> items, selected_index |-> 0, animation_frame |-> 0, frame_count |-> 0]

MainMenu == MenuSystem(<<[text |-> "New Game", action |-> "playing"],
                         [text |-> "Exit", action |-> "quit"]>>)

PauseMenu == MenuSystem(<<[text |-> "Resume", action |-> "playing"],
                          [text |-> "Main Menu", action |-> "main_menu"],
                          [text |-> "Exit", action |-> "quit"]>>)

\* MenuSystem.draw: the fields of the menu it changes.
menu_draw(menu) ==
    [menu EXCEPT !.frame_count = @ + 1,
                 !.animation_frame = ((menu.frame_count + 1) \div 10) % 4]

\* MenuSystem.handle_input: the menu after the call.
menu_after_input(menu, key, cooled) ==
    IF ~cooled THEN menu
    ELSE IF key \in {"w", "W"}
    THEN [menu EXCEPT !.selected_index = (@ - 1) % Len(menu.items)]
    ELSE IF key \in {"s", "S"}
    THEN [menu EXCEPT !.selected_index = (@ + 1) % Len(menu.items)]
    ELSE menu

\* MenuSystem.handle_input: the value it returns, "" for None.
menu_handle_input(menu, key, cooled) ==
    IF ~cooled THEN ""
    ELSE IF key \in {"ENTER", "NEWLINE", " "}
    THEN IF 0 <= menu.selected_index /\ menu.selected_index < Len(menu.items)
         THEN menu.items[menu.selected_index + 1].action
         ELSE ""
    ELSE IF key = "ESC" THEN "quit"
    ELSE ""

(***************************************************************************)
(* main_game_loop.  Its local variables are the record L; one iteration of *)
(* the while loop is the operator Iteration, which gives the locals after  *)
(* the iteration and the calls the iteration made, in order (steps).  The  *)
(* inputs of an iteration: key is what getch returns ("" for no key),      *)
(* wood_amount what random.randint(2, 4) returns if it is called, cooled   *)
(* whether the menu input cooldown has passed.                             *)
(***************************************************************************)
Locals ==
    [game_state    |-> EnhancedGameState,
     current_state |-> "main_menu",
     running       |-> TRUE,
     main_menu     |-> MainMenu,
     pause_menu    |-> PauseMenu]

\* draw_village_map raises AttributeError: an object inside the visible
\* rectangle has a tile type that names no attribute of Tiles.
DrawRaises(gs) ==
    LET offset == calculate_camera_offset(gs.player_pos, MapWidth, MapHeight,
                                          MAIN_AREA_WIDTH, SCREEN_HEIGHT)
    IN  \E pos \in DOMAIN gs.objects :
           /\ pos[1] \in VisibleRange(offset[1], MapWidth, MAIN_AREA_WIDTH)
           /\ pos[2] \in VisibleRange(offset[2], MapHeight, SCREEN_HEIGHT)
           /\ ~TilesHas(Upper(gs.objects[pos].tile_type))

\* An exception that ends the loop.
loop_except_stops(L, message) ==
    [L EXCEPT !.game_state = set_status(@, "Error: " \o message, "BRIGHT_RED", 60),
              !.running = FALSE]

\* except Exception as e: game_state.set_status(f"Error: {str(e)}", BRIGHT_RED, 60)
loop_except(L, message) ==
    [L EXCEPT !.game_state = set_status(@, "Error: " \o message, "BRIGHT_RED", 60)]

HarvestError == "'GameObject' object has no attribute 'harvest'"
FarmPlotError == "type object 'Tiles' has no attribute 'FARM_PLOT'"

main_menu_iteration(L, key, cooled) ==
    LET menu == menu_draw(L.main_menu)
        new_state == menu_handle_input(menu, key, cooled)
        L1 == [L EXCEPT !.main_menu = IF key # "" THEN menu_after_input(menu, key, cooled)
                                      ELSE menu]
        L2 == IF key = "" \/ new_state = "" THEN L1
              ELSE IF new_state = "quit" THEN [L1 EXCEPT !.running = FALSE]
              ELSE IF new_state = "playing"
              THEN [L1 EXCEPT !.game_state =
                                 set_status(EnhancedGameState,
                                            "Welcome to Farm Quest! Use WASD to move.",
                                            "BRIGHT_GREEN", 120),
                              !.current_state = new_state]
              ELSE [L1 EXCEPT !.current_state = new_state]
    IN  [locals |-> L2,
         steps |-> <<"clear", "menu.draw", "render", "getch">>
                      \o (IF key # "" THEN <<"handle_input">> ELSE <<>>)]

\* A paused iteration in which the status message ages.
paused_iteration_ages_status(L, key, cooled) ==
    LET menu == menu_draw(L.pause_menu)
        new_state == menu_handle_input(menu, key, cooled)
        L1 == [L EXCEPT !.pause_menu = IF key # "" THEN menu_after_input(menu, key, cooled)
                                       ELSE menu,
                        !.game_state = update_status(@)]
        L2 == IF key = "" \/ new_state = "" THEN L1
              ELSE IF new_state = "quit" THEN [L1 EXCEPT !.running = FALSE]
              ELSE [L1 EXCEPT !.current_state = new_state]
    IN  [locals |-> L2,
         steps |-> <<"clear", "menu.draw", "render", "getch">>
                      \o (IF key # "" THEN <<"handle_input">> ELSE <<>>)]

paused_iteration(L, key, cooled) ==
    LET menu == menu_draw(L.pause_menu)
        new_state == menu_handle_input(menu, key, cooled)
        L1 == [L EXCEPT !.pause_menu = IF key # "" THEN menu_after_input(menu, key, cooled)
                                       ELSE menu]
        L2 == IF key = "" \/ new_state = "" THEN L1
              ELSE IF new_state = "quit" THEN [L1 EXCEPT !.running = FALSE]
              ELSE [L1 EXCEPT !.current_state = new_state]
    IN  [locals |-> L2,
         steps |-> <<"clear", "menu.draw", "render", "getch">>
                      \o (IF key # "" THEN <<"handle_input">> ELSE <<>>)]

playing_iteration(L, key, wood_amount) ==
    LET gs == L.game_state
        input == IF key = "" THEN <<>> ELSE <<"handle_input">>
        L1 == IF key = "" THEN L
              ELSE IF key = "ESC" THEN [L EXCEPT !.current_state = "paused"]
              ELSE IF key \in {"f", "F"}
              THEN [L EXCEPT !.game_state = handle_interaction(gs, key)]
              ELSE [L EXCEPT !.game_state = handle_gameplay_input(gs, Lower(key), wood_amount)]
        L2 == [L1 EXCEPT !.game_state = update_objects(update_status(@))]
    IN  IF key \in {"f", "F"} /\ InteractionRaises(gs, key)
        THEN [locals |-> loop_except(L, HarvestError),
              steps |-> <<"clear", "getch">> \o input \o <<"except">>]
        ELSE IF DrawRaises(L2.game_state)
        THEN [locals |-> loop_except(L2, FarmPlotError),
              steps |-> <<"clear", "getch">> \o input
                           \o <<"update_status", "update_objects", "draw_border",
                                "draw_title", "draw_village_map", "except">>]
        ELSE [locals |-> L2,
              steps |-> <<"clear", "getch">> \o input
                           \o <<"update_status", "update_objects", "draw_border",
                                "draw_title", "draw_village_map", "draw_status_line",
                                "ui_panel.draw", "render">>]

Iteration(L, key, wood_amount, cooled) ==
    CASE L.current_state = "main_menu" -> main_menu_iteration(L, key, cooled)
      [] L.current_state = "playing" -> playing_iteration(L, key, wood_amount)
      [] L.current_state = "paused" -> paused_iteration(L, key, cooled)

\* The last n elements of a sequence.
LastN(seq, n) == IF Len(seq) <= n THEN seq ELSE SubSeq(seq, Len(seq) - n + 1, Len(seq))

\* The record kept of an iteration: the state and the world it started in,
\* its inputs, the world it ended in and the calls it made.
FrameRecord(L, key, wood_amount, it) ==
    [state |-> L.current_state, key |-> key, wood_amount |-> wood_amount,
     before |-> L.game_state, after |-> it.locals.game_state, steps |-> it.steps]

\* The minutes the clock of the game went on between the worlds before and
\* after of an iteration: 1 for a step, the rest of the hour and 7 hours for
\* a sleep, 0 otherwise.
MinutesPassed(before, after) ==
    (CurrentTime(after) - CurrentTime(before)) % (24 * 60)

\* The stump at pos of the world after was felled in the iteration that led
\* from the world before to it.
FelledIn(before, after, pos) ==
    /\ after.objects[pos].tile_type = "stump"
    /\ \/ pos \notin DOMAIN before.objects
       \/ before.objects[pos].tile_type # "stump"
       \/ before.objects[pos].regrowth_time # after.objects[pos].regrowth_time

\* The record kept of the fellings: for every object that was felled, the
\* minutes that passed on the clock since it was felled last (elapsed), up to
\* the iteration in which it was a tree again (regrown).
StumpLog(log, before, after) ==
    [pos \in {p \in DOMAIN after.objects :
                  FelledIn(before, after, p)
                     \/ (p \in DOMAIN log /\ p \in DOMAIN before.objects)} |->
        IF FelledIn(before, after, pos)
        THEN [elapsed |-> 0, regrown |-> FALSE]
        ELSE IF log[pos].regrown THEN log[pos]
        ELSE [elapsed |-> log[pos].elapsed + MinutesPassed(before, after),
              regrown |-> after.objects[pos].tile_type = "tree"]]

\* One iteration that reads key, from the locals and the trace of the record
\* played on; randint returns wood_amount.
PlayKey(played, key, wood_amount) ==
    IF ~played.locals.running THEN played
    ELSE LET wood == IF key = " " THEN wood_amount ELSE 2
             it == Iteration(played.locals, key, wood, TRUE)
         IN  [locals |-> it.locals,
              trace |-> LastN(Append(played.trace,
                                     FrameRecord(played.locals, key, wood, it)),
                              TraceLen),
              stumps |-> StumpLog(played.stumps, played.locals.game_state,
                                  it.locals.game_state)]

\* The iterations that read the keys of the sequence keys, one key an
\* iteration: the first half of the keys, then (PlayOn) the second half while
\* the loop is running.
RECURSIVE PlayKeys(_, _, _)
RECURSIVE PlayOn(_, _, _)
PlayKeys(played, keys, wood_amount) ==
    IF Len(keys) = 0 THEN played
    ELSE IF Len(keys) = 1 THEN PlayKey(played, keys[1], wood_amount)
    ELSE LET half == Len(keys) \div 2
         IN  PlayOn(PlayKeys(played, SubSeq(keys, 1, half), wood_amount),
                    SubSeq(keys, half + 1, Len(keys)), wood_amount)

PlayOn(played, keys, wood_amount) ==
    IF played.locals.running THEN PlayKeys(played, keys, wood_amount) ELSE played

\* The locals of main_game_loop after the iterations that read the keys, from
\* its start, and the records of the last TraceLen of them.
Play(keys, wood_amount) ==
    PlayKeys([locals |-> Locals, trace |-> <<>>, stumps |-> <<>>], keys, wood_amount)

(***************************************************************************)
(* The status specification: set_status and update_status called in any    *)
(* order on a constructed EnhancedGameState, with timeouts up to           *)
(* MaxTimeout; update_status is called up to MaxExtraTicks times more than *)
(* the timeout set last.                                                   *)
(***************************************************************************)
StatusMessages == {"", "X", "Y"}
StatusColors == {"BRIGHT_WHITE", "BRIGHT_RED"}

StatusInit ==
    /\ BufIdle /\ CamIdle /\ DrawIdle /\ InputIdle
    /\ game_state = EnhancedGameState
    /\ current_state = Idle /\ running = FALSE
    /\ main_menu = Idle /\ pause_menu = Idle /\ trace = <<>> /\ frames = 0
    /\ stumps = <<>>
    /\ status_log = [set |-> FALSE, message |-> "", color |-> "BRIGHT_WHITE",
                     timeout |-> 0, ticks |-> 0]

StatusFrame == UNCHANGED <<bufVars, camVars, drawVars, inputVars, current_state, running,
                           main_menu, pause_menu, trace, frames, stumps>>

SetStatus ==
    \E message \in StatusMessages, color \in StatusColors, timeout \in 0..MaxTimeout :
        /\ game_state' = set_status(game_state, message, color, timeout)
        /\ status_log' = [set |-> TRUE, message |-> message, color |-> color,
                          timeout |-> timeout, ticks |-> 0]
        /\ StatusFrame

UpdateStatus ==
    /\ status_log.ticks < status_log.timeout + MaxExtraTicks
    /\ game_state' = update_status(game_state)
    /\ status_log' = [status_log EXCEPT !.ticks = @ + 1]
    /\ StatusFrame

StatusNext == SetStatus \/ UpdateStatus

SpecStatus == StatusInit /\ [][StatusNext]_vars

\* C9: after set_status(m, style, n) with n >= 1 and m not empty, the message
\* is m (with style and n - k frames left) after k < n calls of update_status,
\* and empty from the n-th call on until the next set_status; a set_status
\* call replaces message, style and remaining lifetime.
C9_StatusLifecycle ==
    /\ (status_log.set /\ status_log.ticks = 0) =>
          /\ game_state.status_message = status_log.message
          /\ game_state.status_color = status_log.color
          /\ game_state.status_timeout = status_log.timeout
    /\ (status_log.set /\ status_log.timeout >= 1 /\ status_log.message # "") =>
          IF status_log.ticks < status_log.timeout
          THEN /\ game_state.status_message = status_log.message
               /\ game_state.status_color = status_log.color
               /\ game_state.status_timeout = status_log.timeout - status_log.ticks
          ELSE /\ game_state.status_message = ""
               /\ game_state.status_timeout = 0

\* set_status("X", style, 30) and then 30 calls of update_status: the message
\* is empty.
C9_Witness ==
    /\ status_log.set /\ status_log.message = "X" /\ status_log.timeout = 30
    /\ status_log.ticks = 30
    /\ game_state.status_message = ""

(***************************************************************************)
(* The game specification: up to MaxFrames iterations of main_game_loop,   *)
(* each with any key of Keys, started from the locals the loop has after   *)
(* reading one of the key sequences of Scenarios from its start.  The      *)
(* cooldown of the menus has passed in the iterations of a scenario.       *)
(***************************************************************************)
\* The keys getch returns in the model; "" is no key.
Keys == {"", "w", "a", "s", "d", "W", "1", "2", "3", "4", "5", " ", "f", "m", "q",
         "ESC", "ENTER"}

\* n times the key
Times(key, n) == [i \in 1..n |-> key]

\* New Game, then the walk from the start tile (50, 10) to (61, 7), a step
\* against the tree tile (62, 7) and the axe.
ToTree == <<"ENTER">> \o Times("d", 11) \o Times("w", 3) \o <<"d", "1">>

\* New Game, then the walk to (50, 4) and a step against the house tile (50, 3).
ToHouse == <<"ENTER">> \o Times("w", 7)

\* New Game, the axe, the axe used 29 times on the grass tile (50, 11), which
\* leaves 5 energy, and three iterations without a key.
Tired == <<"ENTER", "1">> \o Times(" ", 29) \o Times("", 3)

\* The tree at (62, 7) felled, then the walk to (65, 4) and a step against the
\* shop tile (66, 4).
ToShop == ToTree \o Times(" ", 3) \o Times("w", 3) \o Times("d", 5)

\* n steps to the west and back: 2n minutes on the clock.
Pace(n) == [i \in 1..(2 * n) |-> IF i % 2 = 1 THEN "a" ELSE "d"]

\* The tree at (62, 7) felled at 6:14 and 59 minutes of steps.
FelledAtDawn == ToTree \o Times(" ", 3) \o Pace(29) \o <<"a">>

\* The tree at (62, 7) felled at 6:14, then the walk to (50, 4) and a step
\* against the house tile (50, 3).
FelledThenHome == ToTree \o Times(" ", 3) \o Times("a", 11) \o Times("w", 4)

\* Two sleeps, which end at 22:00, 60 minutes of steps that end at (61, 7)
\* before the tree tile (62, 7), the tree felled at 23:00 and 59 minutes of
\* steps.
FelledAtNight ==
    ToHouse \o <<"f", "f">> \o Times("d", 11) \o Times("s", 3) \o Pace(23)
       \o <<"1", " ", " ", " ">> \o Pace(29) \o <<"a">>

\* Two sleeps from 6:07, which end at 22:00 before the house tile (50, 3).
SleptTwice == ToHouse \o <<"f", "f">>

Scenarios ==
    {<<>>,
     <<"ENTER">>,
     ToTree,
     ToTree \o <<" ">>,
     ToTree \o <<" ", " ", " ">>,
     ToHouse,
     SleptTwice,
     Tired,
     ToShop,
     FelledAtDawn,
     FelledThenHome,
     FelledAtNight,
     <<"ENTER", "2">>,
     <<"ENTER", "d", "ESC">>,
     <<"ENTER", "d", "ESC", "s", "ENTER">>}

GameInit ==
    /\ BufIdle /\ CamIdle /\ DrawIdle /\ StatusIdle /\ InputIdle
    /\ \E keys \in Scenarios, wood_amount \in 2..4 :
          \E played \in {Play(keys, wood_amount)} :
              /\ game_state = played.locals.game_state
              /\ current_state = played.locals.current_state
              /\ running = played.locals.running
              /\ main_menu = played.locals.main_menu
              /\ pause_menu = played.locals.pause_menu
              /\ trace = played.trace
              /\ stumps = played.stumps
    /\ frames = 0

\* One iteration of the while loop with the inputs key, wood_amount, cooled.
Iterate(key, wood_amount, cooled) ==
    LET L == [game_state |-> game_state, current_state |-> current_state,
              running |-> running, main_menu |-> main_menu, pause_menu |-> pause_menu]
    IN  /\ running
        /\ frames < MaxFrames
        /\ frames' = frames + 1
        /\ \E it \in {Iteration(L, key, wood_amount, cooled)} :
              /\ game_state' = it.locals.game_state
              /\ current_state' = it.locals.current_state
              /\ running' = it.locals.running
              /\ main_menu' = it.locals.main_menu
              /\ pause_menu' = it.locals.pause_menu
              /\ trace' = LastN(Append(trace, FrameRecord(L, key, wood_amount, it)),
                                TraceLen)
              /\ stumps' = StumpLog(stumps, game_state, it.locals.game_state)
        /\ UNCHANGED <<bufVars, camVars, drawVars, statusVars, inputVars>>

MainMenuFrame ==
    /\ current_state = "main_menu"
    /\ \E key \in Keys, cooled \in BOOLEAN : Iterate(key, 2, cooled)

PlayingFrame ==
    /\ current_state = "playing"
    /\ \E key \in Keys :
          \E wood_amount \in (IF key = " " THEN 2..4 ELSE {2}) :
             Iterate(key, wood_amount, TRUE)

PausedFrame ==
    /\ current_state = "paused"
    /\ \E key \in Keys, cooled \in BOOLEAN : Iterate(key, 2, cooled)

GameNext == MainMenuFrame \/ PlayingFrame \/ PausedFrame

SpecGame == GameInit /\ [][GameNext]_vars

\* The calls of a playing iteration that runs to its end, in order.
PlayingSteps(key) ==
    <<"clear", "getch">> \o (IF key = "" THEN <<>> ELSE <<"handle_input">>)
       \o <<"update_status", "update_objects", "draw_border", "draw_title",
            "draw_village_map", "draw_status_line", "ui_panel.draw", "render">>

\* C6: every iteration of the main loop spent in the playing state clears the
\* buffer, reads at most one input, changes the world, runs all draw passes
\* and then renders once: none ends without rendering.
C6_PlayingFrameRenders ==
    \A i \in 1..Len(trace) :
        trace[i].state = "playing" => trace[i].steps = PlayingSteps(trace[i].key)

\* The tile in front of the player.
Facing(gs) == get_interaction_position(gs.player_pos, gs.player_direction)

\* The player faces a tree tile: a T of the map that holds no object yet or a
\* tree object of full health.
FacingTree(gs) ==
    /\ InMap(Facing(gs)[1], Facing(gs)[2])
    /\ MapChar(Facing(gs)[1], Facing(gs)[2]) = "T"
    /\ \/ Facing(gs) \notin DOMAIN gs.objects
       \/ /\ gs.objects[Facing(gs)].tile_type = "tree"
          /\ gs.objects[Facing(gs)].health = 100

\* trace[i], trace[i+1] and trace[i+2] are tool-use actions in the playing
\* state, the first started with the axe, energy >= 15 and a tree in front.
ThreeStrikes(i) ==
    /\ i >= 1 /\ i + 2 <= Len(trace)
    /\ \A k \in i..(i + 2) : trace[k].state = "playing" /\ trace[k].key = " "
    /\ trace[i].before.current_tool = "AXE"
    /\ trace[i].before.energy >= 15
    /\ FacingTree(trace[i].before)

\* C10: three consecutive tool uses with the axe on a tree take its health
\* 100 -> 66 -> 32 -> 0; the first two leave a tree and add no wood, the third
\* leaves a stump, adds the 2 to 4 wood drawn and sets the regrowth time to the
\* minute of the day plus 60; each costs 5 energy.
C10_ThreeStrikes ==
    \A i \in 1..Len(trace) :
        ThreeStrikes(i) =>
            LET f1 == trace[i]
                f2 == trace[i + 1]
                f3 == trace[i + 2]
                pos == Facing(f1.before)
            IN  /\ f1.after.objects[pos].tile_type = "tree"
                /\ f1.after.objects[pos].health = 66
                /\ f1.after.inventory = f1.before.inventory
                /\ f2.after.objects[pos].tile_type = "tree"
                /\ f2.after.objects[pos].health = 32
                /\ f2.after.inventory = f1.before.inventory
                /\ f3.after.objects[pos].tile_type = "stump"
                /\ f3.after.objects[pos].health = 0
                /\ f3.wood_amount \in 2..4
                /\ f3.after.inventory =
                      [f1.before.inventory EXCEPT !["wood"] = @ + f3.wood_amount]
                /\ f3.after.objects[pos].regrowth_time =
                      f3.before.time_hours * 60 + f3.before.time_minutes + 60
                /\ \A k \in i..(i + 2) : trace[k].after.energy = trace[k].before.energy - 5
                /\ f3.after.energy = f1.before.energy - 15

\* Three strikes on the tree at (62, 7), the last two in iterations of this
\* run, made it a stump and gave 4 wood.
C10_Witness ==
    /\ frames >= 2
    /\ Len(trace) >= 3
    /\ ThreeStrikes(Len(trace) - 2)
    /\ Facing(game_state) = <<62, 7>>
    /\ game_state.objects[<<62, 7>>].tile_type = "stump"
    /\ game_state.inventory["wood"] = 4
    /\ trace[Len(trace)].wood_amount = 4

\* Two worlds that differ at most in the status message, its colour and its
\* timeout.
SameWorld(a, b) ==
    [a EXCEPT !.status_message = b.status_message,
              !.status_color = b.status_color,
              !.status_timeout = b.status_timeout] = b

\* The tool use of the world gs fails: no tool is equipped, the tile in front
\* is outside the map, the energy is below 5, or the tool cannot act on the
\* tile in front (handle_tool_use returns False).
ToolUseFails(gs) ==
    \/ gs.current_tool = "NONE"
    \/ ~InMap(Facing(gs)[1], Facing(gs)[2])
    \/ ~CanUseEnergy(gs, 5)
    \/ handle_tool_use(gs, 2).status_message \in {"Can't use tool here!", "No seeds!"}

\* C11: a tool use that fails sets a status message and leaves every other
\* field of the world as it was: energy, inventory, objects, clock, position
\* and equipped tool.
C11_FailedToolUseUnchanged ==
    \A i \in 1..Len(trace) :
        (trace[i].state = "playing" /\ trace[i].key = " "
            /\ ToolUseFails(trace[i].before)) =>
            /\ handle_tool_use(trace[i].before, trace[i].wood_amount).status_message # ""
            /\ SameWorld(trace[i].before,
                         handle_tool_use(trace[i].before, trace[i].wood_amount))

\* A tool use in an iteration of this run failed on a tile the axe cannot act
\* on, with energy for it.
C11_Witness ==
    /\ frames >= 1
    /\ trace[Len(trace)].state = "playing"
    /\ trace[Len(trace)].key = " "
    /\ trace[Len(trace)].before.current_tool = "AXE"
    /\ trace[Len(trace)].before.energy >= 5
    /\ trace[Len(trace)].after.status_message = "Can't use tool here!"

\* The tile a movement key leads to from the world gs.
Destination(gs, key) ==
    <<gs.player_pos[1] + DIRECTIONS[key][1], gs.player_pos[2] + DIRECTIONS[key][2]>>

\* trace[i] is a playing iteration that read a movement key whose destination
\* is not walkable.
BlockedMove(i) ==
    /\ trace[i].state = "playing"
    /\ Lower(trace[i].key) \in DOMAIN DIRECTIONS
    /\ ~is_position_walkable(trace[i].before,
                             Destination(trace[i].before, Lower(trace[i].key))[1],
                             Destination(trace[i].before, Lower(trace[i].key))[2])

\* The world the handler leaves in the iteration trace[i].
Handled(i) ==
    handle_gameplay_input(trace[i].before, Lower(trace[i].key), trace[i].wood_amount)

\* The messages of a blocked move.
BlockedMessages ==
    {"Press F to enter house", "Use axe to cut tree", "Can't swim in water!",
     "Press F to enter mine", "Press F to enter portal", "Can't walk there!",
     "Can't leave the map!"}

\* C12 (as amended): a movement key whose destination is not walkable sets one
\* of the messages of a blocked move and turns the player to the direction of
\* the key; position, energy, clock, inventory and objects stay as they were.
C12_BlockedMoveTurns ==
    \A i \in 1..Len(trace) :
        BlockedMove(i) =>
            /\ Handled(i).status_message \in BlockedMessages
            /\ Handled(i).status_timeout = 30
            /\ Handled(i).player_direction = KeyDirection(Lower(trace[i].key))
            /\ SameWorld([trace[i].before EXCEPT
                             !.player_direction = KeyDirection(Lower(trace[i].key))],
                         Handled(i))

\* C12 as claimed: a blocked move sets a status message and leaves the rest of
\* the world, the facing direction included, as it was.
C12_AsClaimed ==
    \A i \in 1..Len(trace) :
        BlockedMove(i) =>
            /\ Handled(i).status_message # ""
            /\ SameWorld(trace[i].before, Handled(i))

\* An iteration of this run read a movement key against a tile that is not
\* walkable, and the player turned.
C12_Witness ==
    /\ frames >= 1
    /\ BlockedMove(Len(trace))
    /\ trace[Len(trace)].after.player_direction # trace[Len(trace)].before.player_direction
    /\ trace[Len(trace)].after.player_pos = trace[Len(trace)].before.player_pos
    /\ trace[Len(trace)].after.status_message \in BlockedMessages

\* The tile under the player of the world gs can be stood on: it is inside
\* the map, its terrain is none of H, T, M, f, s, ~ and it holds no tree and
\* no stump.
OnWalkableTile(gs) ==
    /\ 0 <= gs.player_pos[1] /\ gs.player_pos[1] < MapWidth
    /\ 0 <= gs.player_pos[2] /\ gs.player_pos[2] < MapHeight
    /\ MapChar(gs.player_pos[1], gs.player_pos[2]) \notin {"H", "T", "M", "f", "s", "~"}
    /\ gs.player_pos \in DOMAIN gs.objects =>
          gs.objects[gs.player_pos].tile_type \notin {"tree", "stump"}

\* C13: after any sequence of inputs the player stands inside the map, on a
\* terrain that is none of H, T, M, f, s, ~ and on no tree or stump; no
\* iteration (a move, a tool use, the regrowth of a stump) ends with the
\* player on a tile that is not walkable.
C13_PlayerOnWalkableTile ==
    /\ OnWalkableTile(game_state)
    /\ \A i \in 1..Len(trace) :
          OnWalkableTile(trace[i].before) /\ OnWalkableTile(trace[i].after)

\* The player took a step in an iteration of this run, in a world that holds
\* a stump, and stands beside a tile that is not walkable.
C13_Witness ==
    /\ frames >= 1
    /\ trace[Len(trace)].state = "playing"
    /\ trace[Len(trace)].after.player_pos # trace[Len(trace)].before.player_pos
    /\ \E pos \in DOMAIN game_state.objects : game_state.objects[pos].tile_type = "stump"
    /\ \E key \in DOMAIN DIRECTIONS :
          ~is_position_walkable(game_state, Destination(game_state, key)[1],
                                Destination(game_state, key)[2])

\* The energy and the inventory of the world gs are in range.
InRange(gs) ==
    /\ gs.energy \in 0..gs.max_energy
    /\ \A item \in DOMAIN gs.inventory : gs.inventory[item] \in Nat

\* C14: after any sequence of moves, tool uses, sleeps and shop sales the
\* energy is between 0 and max_energy and every inventory count is a natural
\* number.
C14_EnergyAndInventoryInRange ==
    /\ InRange(game_state)
    /\ \A i \in 1..Len(trace) : InRange(trace[i].before) /\ InRange(trace[i].after)

\* A tool use of this run took the last energy and the next was refused.
C14_Witness ==
    /\ frames >= 2
    /\ \A i \in {Len(trace) - 1, Len(trace)} :
          trace[i].state = "playing" /\ trace[i].key = " "
    /\ trace[Len(trace) - 1].before.energy = 5
    /\ trace[Len(trace)].before.energy = 0
    /\ game_state.energy = 0
    /\ game_state.status_message = "Too tired!"

\* The minutes after which a stump is a tree again.
RegrowthMinutes == 60

\* C15: a stump is a tree again, of health 100 and with no regrowth time,
\* once 60 minutes have passed on the clock of the game since the felling,
\* at whatever time of day the tree was felled and whether the clock went on
\* by steps or by sleep; and it is not a tree again before that.
C15_StumpRegrowsAfterAnHour ==
    /\ \A pos \in DOMAIN stumps :
          stumps[pos].regrown <=> stumps[pos].elapsed >= RegrowthMinutes
    /\ \A i \in 1..Len(trace) : \A pos \in DOMAIN trace[i].before.objects :
          (/\ trace[i].state = "playing"
           /\ trace[i].before.objects[pos].tile_type = "stump"
           /\ trace[i].after.objects[pos].tile_type # "stump") =>
              /\ trace[i].after.objects[pos].tile_type = "tree"
              /\ trace[i].after.objects[pos].health = 100
              /\ trace[i].after.objects[pos].regrowth_time = NO_TIME

\* The tree at (62, 7) was felled in the last hour of the day; a step of this
\* run took the clock over midnight, 60 minutes after the felling, and the
\* stump still stands.
C15_Witness ==
    /\ frames >= 1
    /\ <<62, 7>> \in DOMAIN stumps
    /\ stumps[<<62, 7>>].elapsed >= RegrowthMinutes
    /\ game_state.objects[<<62, 7>>].tile_type = "stump"
    /\ game_state.objects[<<62, 7>>].regrowth_time = 24 * 60
    /\ game_state.time_hours = 0
    /\ trace[Len(trace)].before.time_hours = 23

\* The iteration trace[i] ended in the except clause of the loop.
ExceptFrame(i) == trace[i].steps[Len(trace[i].steps)] = "except"

\* The world as the code of the iteration trace[i] left it when the draw code
\* raised: after the input handler, update_status and the update of the
\* objects.
WorldAtDraw(i) ==
    update_objects(update_status(
        IF trace[i].key \in {"", "ESC"} THEN trace[i].before
        ELSE IF trace[i].key \in {"f", "F"}
        THEN handle_interaction(trace[i].before, trace[i].key)
        ELSE Handled(i)))

\* The menu action of the iteration recorded last was QUIT.
QuitChosen(frame, menu) ==
    /\ frame.state \in {"main_menu", "paused"}
    /\ frame.key # ""
    /\ "handle_input" = frame.steps[Len(frame.steps)]
    /\ menu_handle_input(menu, frame.key, TRUE) = "quit"

Owns(gs, tool) == tool \in DOMAIN gs.tools /\ gs.tools[tool]

\* C17: a tool key selects the tool of its slot only if the player owns it:
\* the key of a tool that is not owned leaves the equipped tool as it was and
\* sets a status message, the key of an owned tool makes it the equipped
\* tool; so the equipped tool is always none or a tool the player owns.
C17_OnlyOwnedToolsEquipped ==
    /\ game_state.current_tool = "NONE" \/ Owns(game_state, game_state.current_tool)
    /\ \A i \in 1..Len(trace) :
          (trace[i].state = "playing" /\ trace[i].key \in {"1", "2", "3", "4", "5"}) =>
             /\ trace[i].after.current_tool = Handled(i).current_tool
             /\ trace[i].after.tools = trace[i].before.tools
             /\ IF Owns(trace[i].before, ToolOfKey(trace[i].key))
                THEN /\ Handled(i).current_tool = ToolOfKey(trace[i].key)
                     /\ SameWorld([trace[i].before EXCEPT
                                      !.current_tool = ToolOfKey(trace[i].key)],
                                  Handled(i))
                ELSE /\ Handled(i).current_tool = trace[i].before.current_tool
                     /\ Handled(i).status_message =
                           "You don't have a " \o ToolLower(ToolOfKey(trace[i].key)) \o " yet!"
                     /\ SameWorld(trace[i].before, Handled(i))

\* With the axe equipped, an iteration of this run read the key of the seeds
\* and the next the key of the hoe: the axe stayed, then the hoe was equipped.
C17_Witness ==
    /\ frames >= 2
    /\ trace[Len(trace) - 1].state = "playing"
    /\ trace[Len(trace) - 1].key = "3"
    /\ trace[Len(trace) - 1].before.current_tool = "AXE"
    /\ trace[Len(trace) - 1].after.current_tool = "AXE"
    /\ trace[Len(trace) - 1].after.status_message = "You don't have a seeds yet!"
    /\ trace[Len(trace)].key = "2"
    /\ game_state.current_tool = "HOE"

\* trace[i] is a playing iteration that read the interaction key with the
\* terrain ch on the tile in front of the player.
InteractsWith(i, ch) ==
    /\ trace[i].state = "playing"
    /\ trace[i].key \in {"f", "F"}
    /\ InMap(Facing(trace[i].before)[1], Facing(trace[i].before)[2])
    /\ MapChar(Facing(trace[i].before)[1], Facing(trace[i].before)[2]) = ch

\* The world handle_interaction leaves in the iteration trace[i].
Interacted(i) == handle_interaction(trace[i].before, trace[i].key)

\* C21: the interaction key before a house tile sets the energy to
\* max_energy, adds exactly one to the day and sets a status message; the
\* position, the inventory, the money, the objects and the equipped tool stay
\* as they were.
C21_SleepRestoresEnergy ==
    \A i \in 1..Len(trace) :
        InteractsWith(i, "H") =>
            /\ Interacted(i).energy = trace[i].before.max_energy
            /\ Interacted(i).max_energy = trace[i].before.max_energy
            /\ Interacted(i).day = trace[i].before.day + 1
            /\ Interacted(i).status_message = "Got a good night's sleep! Energy restored."
            /\ Interacted(i).player_pos = trace[i].before.player_pos
            /\ Interacted(i).inventory = trace[i].before.inventory
            /\ Interacted(i).money = trace[i].before.money
            /\ Interacted(i).objects = trace[i].before.objects
            /\ Interacted(i).current_tool = trace[i].before.current_tool
            /\ trace[i].after.energy = trace[i].before.max_energy
            /\ trace[i].after.day = trace[i].before.day + 1
            /\ trace[i].after.status_message = Interacted(i).status_message

\* The player slept in an iteration of this run with less than the full
\* energy, wood in the inventory and a stump in the world.
C21_Witness ==
    /\ frames >= 1
    /\ InteractsWith(Len(trace), "H")
    /\ trace[Len(trace)].before.energy < trace[Len(trace)].before.max_energy
    /\ trace[Len(trace)].before.inventory["wood"] > 0
    /\ trace[Len(trace)].before.objects # <<>>
    /\ game_state.energy = game_state.max_energy
    /\ game_state.day = trace[Len(trace)].before.day + 1

\* The wood in the inventory of the world gs.
Wood(gs) == IF "wood" \in DOMAIN gs.inventory THEN gs.inventory["wood"] ELSE 0

\* C22: the interaction key before a shop tile with w > 0 wood sets the wood
\* to 0 and adds exactly 5 * w to the money, so that money + 5 * wood is what
\* it was and the money does not go down; with no wood it sets a status
\* message and leaves the money and the inventory as they were.
C22_ShopSale ==
    \A i \in 1..Len(trace) :
        InteractsWith(i, "s") =>
            /\ Wood(Interacted(i)) = 0
            /\ Interacted(i).money = trace[i].before.money + 5 * Wood(trace[i].before)
            /\ Interacted(i).money + 5 * Wood(Interacted(i))
                  = trace[i].before.money + 5 * Wood(trace[i].before)
            /\ Interacted(i).money >= trace[i].before.money
            /\ Interacted(i).status_message # ""
            /\ \A item \in DOMAIN trace[i].before.inventory \ {"wood"} :
                  Interacted(i).inventory[item] = trace[i].before.inventory[item]
            /\ Wood(trace[i].before) = 0 =>
                  /\ Interacted(i).status_message = "No wood to sell!"
                  /\ SameWorld(trace[i].before, Interacted(i))
            /\ trace[i].after.money = Interacted(i).money
            /\ trace[i].after.inventory = Interacted(i).inventory

\* The player sold 4 wood for 20 in an iteration of this run and asked to
\* sell again in the next, with no wood left.
C22_Witness ==
    /\ frames >= 2
    /\ InteractsWith(Len(trace) - 1, "s")
    /\ InteractsWith(Len(trace), "s")
    /\ Wood(trace[Len(trace) - 1].before) = 4
    /\ trace[Len(trace) - 1].after.money = trace[Len(trace) - 1].before.money + 20
    /\ Wood(trace[Len(trace)].before) = 0
    /\ game_state.money = trace[Len(trace)].before.money
    /\ game_state.status_message = "No wood to sell!"

\* The health of what stands on the tile pos of the world gs: that of the
\* object, or the full health of a tree tile that holds no object yet.
HealthAt(gs, pos) == IF pos \in DOMAIN gs.objects THEN gs.objects[pos].health ELSE 100

\* trace[i] is a playing iteration that read the tool key while the player
\* faced a stump.
AxeOnStump(i) ==
    /\ trace[i].state = "playing"
    /\ trace[i].key = " "
    /\ trace[i].before.current_tool = "AXE"
    /\ Facing(trace[i].before) \in DOMAIN trace[i].before.objects
    /\ trace[i].before.objects[Facing(trace[i].before)].tile_type = "stump"

\* C23: wood is added to the inventory only by the axe strike that takes a
\* tree's health from a positive value to 0, and the axe applied to a stump
\* leaves the inventory, the type of the object and its regrowth time as
\* they were.
C23_AxeConsistentWithTileType ==
    \A i \in 1..Len(trace) :
        /\ (trace[i].state = "playing" /\ Wood(Handled(i)) > Wood(trace[i].before)) =>
              /\ trace[i].key = " "
              /\ trace[i].before.current_tool = "AXE"
              /\ HealthAt(trace[i].before, Facing(trace[i].before)) > 0
              /\ HealthAt(Handled(i), Facing(trace[i].before)) = 0
        /\ AxeOnStump(i) =>
              /\ Handled(i).inventory = trace[i].before.inventory
              /\ Handled(i).objects[Facing(trace[i].before)].tile_type = "stump"
              /\ Handled(i).objects[Facing(trace[i].before)].regrowth_time
                    = trace[i].before.objects[Facing(trace[i].before)].regrowth_time

\* The axe was used on the stump at (62, 7) in an iteration of this run, with
\* energy for it, and the inventory holds more wood than before.
C23_Witness ==
    /\ frames >= 1
    /\ AxeOnStump(Len(trace))
    /\ Facing(trace[Len(trace)].before) = <<62, 7>>
    /\ trace[Len(trace)].before.energy >= 5
    /\ trace[Len(trace)].before.objects[<<62, 7>>].health = 0
    /\ Wood(trace[Len(trace)].after) > Wood(trace[Len(trace)].before)

\* The clock of the world gs is well-formed.
ClockWellFormed(gs) ==
    /\ 0 <= gs.time_hours /\ gs.time_hours < 24
    /\ 0 <= gs.time_minutes /\ gs.time_minutes < 60

\* trace[i] is a playing iteration in which the player slept.
Slept(i) == InteractsWith(i, "H")

\* trace[i] is a playing iteration in which a step took the clock from 23:59
\* over midnight.
PassedMidnight(i) ==
    /\ trace[i].state = "playing"
    /\ trace[i].before.time_hours = 23 /\ trace[i].before.time_minutes = 59
    /\ MinutesPassed(trace[i].before, trace[i].after) = 1

\* C25: after any sequence of moves and sleeps the clock is well-formed,
\* 0 <= time_hours < 24 and 0 <= time_minutes < 60, and the day counter goes
\* up by exactly one in an iteration in which the clock passes midnight or the
\* player sleeps, and in no other.
C25_ClockWellFormed ==
    /\ current_state = "playing" => ClockWellFormed(game_state)
    /\ \A i \in 1..Len(trace) :
          trace[i].state = "playing" =>
             /\ ClockWellFormed(trace[i].after)
             /\ trace[i].after.day = trace[i].before.day
                   + (IF Slept(i) \/ PassedMidnight(i) THEN 1 ELSE 0)

\* The player slept at 22:00 in one iteration of this run and took a step in
\* the next: the clock stood at 30:00 in between and the day counter went up
\* by two.
C25_Witness ==
    /\ frames >= 2
    /\ Slept(Len(trace) - 1)
    /\ trace[Len(trace) - 1].before.time_hours = 22
    /\ trace[Len(trace) - 1].after.time_hours = 30
    /\ trace[Len(trace)].state = "playing"
    /\ Lower(trace[Len(trace)].key) \in DOMAIN DIRECTIONS
    /\ game_state.time_hours = 0
    /\ game_state.time_minutes = 1
    /\ game_state.day = trace[Len(trace) - 1].before.day + 2

\* trace[i] is a playing iteration that read a movement key whose destination
\* is walkable.
FreeMove(i) ==
    /\ trace[i].state = "playing"
    /\ Lower(trace[i].key) \in DOMAIN DIRECTIONS
    /\ is_position_walkable(trace[i].before,
                            Destination(trace[i].before, Lower(trace[i].key))[1],
                            Destination(trace[i].before, Lower(trace[i].key))[2])

\* C26: a move to a walkable destination changes the position by exactly one
\* tile in the direction of the key, costs exactly 1 energy and advances the
\* clock by exactly 1 minute, and the position of the player does not change
\* in an iteration in which no energy is spent: a player with 0 energy
\* cannot move.
C26_MoveCostsEnergy ==
    \A i \in 1..Len(trace) :
        /\ FreeMove(i) =>
              /\ Handled(i).player_pos = Destination(trace[i].before, Lower(trace[i].key))
              /\ Handled(i).energy = trace[i].before.energy - 1
              /\ MinutesPassed(trace[i].before, Handled(i)) = 1
        /\ (trace[i].state = "playing" /\ trace[i].after.energy >= trace[i].before.energy) =>
              trace[i].after.player_pos = trace[i].before.player_pos

\* A player with 0 energy pressed a movement key in an iteration of this run
\* and stands on the next tile, with 0 energy, at the same minute.
C26_Witness ==
    /\ frames >= 1
    /\ FreeMove(Len(trace))
    /\ trace[Len(trace)].before.energy = 0
    /\ game_state.energy = 0
    /\ game_state.player_pos
          = Destination(trace[Len(trace)].before, Lower(trace[Len(trace)].key))
    /\ game_state.status_message = "Too tired!"
    /\ MinutesPassed(trace[Len(trace)].before, game_state) = 0

\* The state of the loop after the iteration trace[i].
StateAfter(i) == IF i < Len(trace) THEN trace[i + 1].state ELSE current_state

\* The world a new game starts with.
FreshWorld ==
    set_status(EnhancedGameState, "Welcome to Farm Quest! Use WASD to move.",
               "BRIGHT_GREEN", 120)

\* C28: an iteration in the paused or the main-menu state leaves the whole
\* world as it was (the status message and its lifetime and the objects with
\* their regrowth times included), so Resume returns to playing with the
\* world of the moment of pausing; the transitions are main-menu -> playing
\* with a fresh world, playing -> paused on ESC, paused -> playing or
\* main-menu, and a menu -> quit, and no other.
C28_MenusLeaveWorldUnchanged ==
    /\ \A i \in 1..Len(trace) :
          /\ trace[i].state = "paused" =>
                /\ trace[i].after = trace[i].before
                /\ StateAfter(i) \in {"paused", "playing", "main_menu"}
          /\ trace[i].state = "main_menu" =>
                /\ StateAfter(i) \in {"main_menu", "playing"}
                /\ trace[i].after = IF StateAfter(i) = "playing" THEN FreshWorld
                                    ELSE trace[i].before
          /\ trace[i].state = "playing" =>
                /\ StateAfter(i) \in {"playing", "paused"}
                /\ StateAfter(i) = "paused" <=> trace[i].key = "ESC"
          /\ (i < Len(trace) /\ trace[i].state = "paused") =>
                trace[i + 1].before = trace[i].before
    /\ (frames >= 1 /\ ~running) => trace[Len(trace)].state \in {"main_menu", "paused"}
    /\ (frames >= 1 /\ trace[Len(trace)].state = "paused") =>
          game_state = trace[Len(trace)].before

\* The player pressed ESC in the playing state with a status message on its
\* way and chose Resume in an iteration of this run: the loop is back in the
\* playing state with the world of the moment of pausing.
C28_Witness ==
    /\ frames >= 1
    /\ Len(trace) >= 2
    /\ trace[Len(trace) - 1].state = "playing"
    /\ trace[Len(trace) - 1].key = "ESC"
    /\ trace[Len(trace)].state = "paused"
    /\ trace[Len(trace)].key = "ENTER"
    /\ current_state = "playing"
    /\ running
    /\ game_state = trace[Len(trace) - 1].after
    /\ game_state.status_message # ""
    /\ game_state.status_timeout > 0

\* C29: key 5 pressed while a tool is equipped unequips it: the equipped tool
\* becomes none and the status message is "Tools unequipped", and a tool use
\* after that reports that a tool must be selected first.
C29_KeyFiveUnequips ==
    \A i \in 1..Len(trace) :
        (/\ trace[i].state = "playing"
         /\ trace[i].key = "5"
         /\ trace[i].before.current_tool # "NONE") =>
            /\ Handled(i).current_tool = "NONE"
            /\ Handled(i).status_message = "Tools unequipped"
            /\ trace[i].after.current_tool = "NONE"
            /\ handle_tool_use(trace[i].after, 2).status_message
                  = "Select a tool first! (1-4)"

\* With the axe equipped, an iteration of this run read key 5 and the next
\* the tool key: the axe is still equipped and was used.
C29_Witness ==
    /\ frames >= 2
    /\ trace[Len(trace) - 1].state = "playing"
    /\ trace[Len(trace) - 1].key = "5"
    /\ trace[Len(trace) - 1].before.current_tool = "AXE"
    /\ trace[Len(trace) - 1].after.current_tool = "AXE"
    /\ trace[Len(trace) - 1].after.status_message = "You don't have a none yet!"
    /\ trace[Len(trace)].key = " "
    /\ game_state.current_tool = "AXE"
    /\ game_state.energy = trace[Len(trace)].before.energy - 5
    /\ game_state.status_message # "Select a tool first! (1-4)"

(***************************************************************************)
(* The message specification: one playing iteration of main_game_loop in   *)
(* which the handler of the key sets a status message, and then iterations *)
(* without a key while the lifetime set with the message lasts.  The       *)
(* worlds it starts in are those of Scenarios in the playing state.        *)
(* status_log holds the message the handler set, the number of iterations  *)
(* since (ticks) and whether a rendered frame had the message on the       *)
(* status line (shown).                                                    *)
(***************************************************************************)
MessageInit ==
    /\ BufIdle /\ CamIdle /\ DrawIdle /\ InputIdle
    /\ \E keys \in Scenarios, wood_amount \in 2..4 :
          \E played \in {Play(keys, wood_amount)} :
              /\ played.locals.current_state = "playing"
              /\ game_state = played.locals.game_state
              /\ current_state = played.locals.current_state
              /\ running = played.locals.running
              /\ main_menu = played.locals.main_menu
              /\ pause_menu = played.locals.pause_menu
              /\ trace = played.trace
              /\ stumps = played.stumps
    /\ frames = 0
    /\ status_log = [set |-> FALSE, message |-> "", color |-> "BRIGHT_WHITE",
                     timeout |-> 0, ticks |-> 0, shown |-> FALSE]

\* The screen of a playing iteration that reaches render, as the passes from
\* draw_status_line on write it: the passes before them write their cells
\* first, and no pass follows them.
status_line_frame(gs) ==
    ui_panel_draw(draw_status_line(ScreenBuffer(SCREEN_WIDTH, SCREEN_HEIGHT), gs), gs)

\* The cells of the status line from column 2 on hold the string message.
StatusLineShows(scr, message) ==
    \A i \in 1..Len(message) :
        scr.buffer[scr.height - 2][i + 1] = SubSeq(message, i, i)

\* The world the handler of the key leaves in a playing iteration.
AfterKey(gs, key, wood_amount) ==
    IF key \in {"f", "F"} THEN handle_interaction(gs, key)
    ELSE handle_gameplay_input(gs, Lower(key), wood_amount)

\* One playing iteration with the key; log is status_log as the handler of
\* the key leaves it.
MessageIterate(key, wood_amount, log) ==
    LET L == [game_state |-> game_state, current_state |-> current_state,
              running |-> running, main_menu |-> main_menu, pause_menu |-> pause_menu]
    IN  \E it \in {Iteration(L, key, wood_amount, TRUE)} :
           \E rendered \in {it.steps[Len(it.steps)] = "render"} :
              /\ game_state' = it.locals.game_state
              /\ current_state' = it.locals.current_state
              /\ running' = it.locals.running
              /\ main_menu' = it.locals.main_menu
              /\ pause_menu' = it.locals.pause_menu
              /\ trace' = LastN(Append(trace, FrameRecord(L, key, wood_amount, it)),
                                TraceLen)
              /\ stumps' = StumpLog(stumps, game_state, it.locals.game_state)
              /\ status_log' =
                    [log EXCEPT !.ticks = @ + 1,
                                !.shown = @ \/ (/\ rendered
                                                /\ it.locals.game_state.status_message
                                                      = log.message
                                                /\ StatusLineShows(
                                                      status_line_frame(it.locals.game_state),
                                                      log.message))]
              /\ UNCHANGED <<bufVars, camVars, drawVars, inputVars, frames>>

\* The iteration in which the handler of a key sets a status message.
GameplayAction ==
    /\ ~status_log.set
    /\ running /\ current_state = "playing"
    /\ \E key \in Keys \ {"", "ESC"} :
          \E wood_amount \in (IF key = " " THEN 2..4 ELSE {2}) :
             /\ ~(key \in {"f", "F"} /\ InteractionRaises(game_state, key))
             /\ \E set \in {AfterKey(game_state, key, wood_amount)} :
                   /\ set.status_message # ""
                   /\ <<set.status_message, set.status_color, set.status_timeout>>
                         # <<game_state.status_message, game_state.status_color,
                             game_state.status_timeout>>
                   /\ MessageIterate(key, wood_amount,
                         [set |-> TRUE, message |-> set.status_message,
                          color |-> set.status_color, timeout |-> set.status_timeout,
                          ticks |-> 0, shown |-> FALSE])

\* An iteration in which getch returns no key.
IdleIteration ==
    /\ status_log.set
    /\ running /\ current_state = "playing"
    /\ status_log.ticks < status_log.timeout
    /\ MessageIterate("", 2, status_log)

MessageNext == GameplayAction \/ IdleIteration

SpecMessage == MessageInit /\ [][MessageNext]_vars

\* C24: every status message set by a gameplay action is on the status line
\* of at least one rendered frame before it expires, whatever the equipped
\* tool and the object in front of the player: when the message of the
\* action has expired, a rendered frame has shown it.
C24_MessageShownBeforeExpiry ==
    (status_log.set /\ game_state.status_message = "") => status_log.shown

\* With the axe equipped, key 4 set "You don't have a watering_can yet!" for
\* 30 frames; the message has expired and no rendered frame has shown it.
C24_Witness ==
    /\ status_log.set
    /\ status_log.message = "You don't have a watering_can yet!"
    /\ status_log.timeout = 30
    /\ status_log.ticks = 30
    /\ game_state.current_tool = "AXE"
    /\ game_state.status_message = ""
    /\ ~status_log.shown

(***************************************************************************)
(* The quit specification: the playing iterations of main_game_loop of a   *)
(* player who presses q or Q or no key at all, without end: the while loop *)
(* runs as long as running is true, so the iteration is taken whenever it  *)
(* changes the state.  The worlds it starts in are those the loop has      *)
(* after reading one of the key sequences of QuitScenarios; frames counts  *)
(* the iterations up to MaxFrames.                                         *)
(***************************************************************************)
QuitScenarios == {<<"ENTER">>, ToTree \o <<" ">>, ToHouse \o <<"f">>, <<"ENTER", "2">>}

QuitInit ==
    /\ BufIdle /\ CamIdle /\ DrawIdle /\ StatusIdle /\ InputIdle
    /\ \E keys \in QuitScenarios :
          \E played \in {Play(keys, 3)} :
              /\ game_state = played.locals.game_state
              /\ current_state = played.locals.current_state
              /\ running = played.locals.running
              /\ main_menu = played.locals.main_menu
              /\ pause_menu = played.locals.pause_menu
              /\ trace = played.trace
              /\ stumps = played.stumps
    /\ frames = 0

\* One iteration of the while loop in the playing state with the key.
QuitIterate(key) ==
    LET L == [game_state |-> game_state, current_state |-> current_state,
              running |-> running, main_menu |-> main_menu, pause_menu |-> pause_menu]
    IN  /\ frames' = Min(frames + 1, MaxFrames)
        /\ \E it \in {Iteration(L, key, 2, TRUE)} :
              /\ game_state' = it.locals.game_state
              /\ current_state' = it.locals.current_state
              /\ running' = it.locals.running
              /\ main_menu' = it.locals.main_menu
              /\ pause_menu' = it.locals.pause_menu
              /\ trace' = LastN(Append(trace, FrameRecord(L, key, 2, it)), TraceLen)
              /\ stumps' = StumpLog(stumps, game_state, it.locals.game_state)
        /\ UNCHANGED <<bufVars, camVars, drawVars, statusVars, inputVars>>

\* getch returns q or Q
QuitKeyFrame ==
    /\ running /\ current_state = "playing"
    /\ \E key \in {"q", "Q"} : QuitIterate(key)

\* getch returns no key
NoKeyFrame ==
    /\ running /\ current_state = "playing"
    /\ QuitIterate("")

QuitNext == QuitKeyFrame \/ NoKeyFrame

SpecQuit == QuitInit /\ [][QuitNext]_vars /\ WF_vars(QuitNext)

\* The iteration made last read q or Q in the playing state.
QuitPressed ==
    /\ frames >= 1
    /\ trace[Len(trace)].state = "playing"
    /\ Lower(trace[Len(trace)].key) = "q"

\* C30: the hint "Q: Quit" of the status line is honoured: after q or Q is
\* pressed in the playing state the main loop eventually ends or leaves the
\* playing state.
C30_QuitHonoured ==
    [](QuitPressed => <>(~running \/ current_state # "playing"))

\* An iteration of this run read q in the playing state while the status
\* line showed "Q: Quit": the loop runs on in the playing state and the world
\* is as an iteration without a key leaves it.
C30_Witness ==
    /\ QuitPressed
    /\ running
    /\ current_state = "playing"
    /\ "Q: Quit" = status_controls(trace[Len(trace)].before)[
                       Len(status_controls(trace[Len(trace)].before))]
    /\ game_state = update_objects(update_status(trace[Len(trace)].before))

(***************************************************************************)
(* The draw specification: iterations of main_game_loop in the playing     *)
(* state, call by call, on the screen buffer of SCREEN_WIDTH x             *)
(* SCREEN_HEIGHT cells.  pc is the call made next.  getch returns no key   *)
(* or the minimap key.  The worlds it starts in are those the loop has     *)
(* after reading one of the key sequences of DrawScenarios.                *)
(***************************************************************************)
\* New Game, the walk over the bridge to (11, 7), a step against the tree
\* tile (11, 8), the axe and three strikes.
ToWest == <<"ENTER">> \o Times("a", 33) \o Times("w", 3) \o Times("a", 6)
             \o <<"s", "1", " ", " ", " ">>

DrawScenarios ==
    {<<"ENTER">>,
     <<"ENTER", "a">>,
     <<"ENTER", "w", "d">>,
     <<"ENTER", "1">>,
     ToTree,
     ToTree \o <<" ">>,
     ToTree \o <<" ", " ", " ">>,
     ToTree \o <<" ", " ", " ", "s", "s">>,
     ToHouse,
     ToHouse \o <<"f">>,
     <<"ENTER", "2">>,
     <<"ENTER", "2", " ">>,
     <<"ENTER", "d", "2", " ", "w", "w", "5">>,
     ToWest}

DrawKeys == {"", "m"}

DrawInit ==
    /\ CamIdle /\ StatusIdle /\ InputIdle
    /\ \E keys \in DrawScenarios :
          \E played \in {Play(keys, 3)} :
              /\ game_state = played.locals.game_state
              /\ current_state = played.locals.current_state
              /\ running = played.locals.running
              /\ main_menu = played.locals.main_menu
              /\ pause_menu = played.locals.pause_menu
              /\ trace = played.trace
              /\ stumps = played.stumps
    /\ frames = 0
    /\ screen = ScreenBuffer(SCREEN_WIDTH, SCREEN_HEIGHT)
    /\ output = <<>>
    /\ last_op = NoOp
    /\ prev_screen = ScreenBuffer(0, 0)
    /\ nops = 0
    /\ pc = "clear"

DrawFrame == UNCHANGED <<camVars, statusVars, inputVars, last_op, prev_screen, nops,
                         current_state, running, main_menu, pause_menu, trace,
                         stumps>>

\* screen_buffer.clear()
FrameClear ==
    /\ pc = "clear" /\ current_state = "playing" /\ frames < MaxDrawFrames
    /\ screen' = clear(screen)
    /\ pc' = "getch"
    /\ UNCHANGED <<game_state, output, frames>>
    /\ DrawFrame

\* key = input_handler.getch() and the handler of the key
FrameInput ==
    /\ pc = "getch"
    /\ \E key \in DrawKeys :
          game_state' = IF key = "" THEN game_state
                        ELSE handle_gameplay_input(game_state, Lower(key), 2)
    /\ pc' = "update"
    /\ UNCHANGED <<screen, output, frames>>
    /\ DrawFrame

\* game_state.update_status() and obj.update(game_state) for every object
FrameUpdate ==
    /\ pc = "update"
    /\ game_state' = update_objects(update_status(game_state))
    /\ pc' = "draw_border"
    /\ UNCHANGED <<screen, output, frames>>
    /\ DrawFrame

FrameDrawBorder ==
    /\ pc = "draw_border"
    /\ screen' = draw_border(screen)
    /\ pc' = "draw_title"
    /\ UNCHANGED <<game_state, output, frames>>
    /\ DrawFrame

FrameDrawTitle ==
    /\ pc = "draw_title"
    /\ screen' = draw_title(screen)
    /\ pc' = "draw_village_map"
    /\ UNCHANGED <<game_state, output, frames>>
    /\ DrawFrame

FrameDrawVillageMap ==
    /\ pc = "draw_village_map"
    /\ \E drawn \in {draw_village_map(screen, game_state)} :
          /\ screen' = drawn
          /\ pc' = IF drawn.raised THEN "except" ELSE "draw_status_line"
    /\ UNCHANGED <<game_state, output, frames>>
    /\ DrawFrame

FrameDrawStatusLine ==
    /\ pc = "draw_status_line"
    /\ screen' = draw_status_line(screen, game_state)
    /\ pc' = "ui_panel.draw"
    /\ UNCHANGED <<game_state, output, frames>>
    /\ DrawFrame

FrameUIPanelDraw ==
    /\ pc = "ui_panel.draw"
    /\ screen' = ui_panel_draw(screen, game_state)
    /\ pc' = "render"
    /\ UNCHANGED <<game_state, output, frames>>
    /\ DrawFrame

\* screen_buffer.render(), the end of the iteration
FrameRender ==
    /\ pc = "render"
    /\ output' = render(screen)
    /\ pc' = "clear"
    /\ frames' = frames + 1
    /\ UNCHANGED <<game_state, screen>>
    /\ DrawFrame

\* except Exception as e: ...; continue
FrameExcept ==
    /\ pc = "except"
    /\ game_state' = set_status(game_state, "Error: " \o FarmPlotError, "BRIGHT_RED", 60)
    /\ screen' = [screen EXCEPT !.raised = FALSE]
    /\ pc' = "clear"
    /\ frames' = frames + 1
    /\ UNCHANGED output
    /\ DrawFrame

DrawNext ==
    \/ FrameClear \/ FrameInput \/ FrameUpdate \/ FrameDrawBorder \/ FrameDrawTitle
    \/ FrameDrawVillageMap \/ FrameDrawStatusLine \/ FrameUIPanelDraw
    \/ FrameRender \/ FrameExcept

SpecDraw == DrawInit /\ [][DrawNext]_vars

\* The camera offset of the frame and the screen cell of a map tile.
FrameOffset(gs) ==
    calculate_camera_offset(gs.player_pos, MapWidth, MapHeight,
                            MAIN_AREA_WIDTH, SCREEN_HEIGHT)
ScreenCell(gs, pos) == <<pos[1] + FrameOffset(gs)[1] + 2, pos[2] + FrameOffset(gs)[2] + 2>>

\* The map tile is inside the visible rectangle.
Visible(gs, pos) ==
    /\ pos[1] \in VisibleRange(FrameOffset(gs)[1], MapWidth, MAIN_AREA_WIDTH)
    /\ pos[2] \in VisibleRange(FrameOffset(gs)[2], MapHeight, SCREEN_HEIGHT)

\* The screen cell is one the minimap (with its frame) or the player glyph is
\* drawn on.
UnderMinimap(gs, cell) ==
    /\ gs.show_minimap
    /\ cell[1] \in (minimap_x - 1)..(minimap_x + minimap_width)
    /\ cell[2] \in (minimap_y - 1)..(minimap_y + minimap_height)
UnderPlayer(gs, cell) == cell = ScreenCell(gs, gs.player_pos)

\* The kinds of object gameplay can create.
ObjectKinds == {"tree", "stump", "farm_plot", "crops_seeds"}

\* C5: in a playing frame, for every object of a kind gameplay can create
\* inside the visible rectangle, the object pass of draw_village_map ends
\* without an error and the cell of the object holds the glyph and style of
\* the object (where the player and the minimap, drawn later, do not cover it).
C5_ObjectPassCompletes ==
    pc \in {"draw_status_line", "except"} =>
        /\ ~screen.raised
        /\ \A pos \in DOMAIN game_state.objects :
              (/\ game_state.objects[pos].tile_type \in ObjectKinds
               /\ Visible(game_state, pos)
               /\ ~UnderMinimap(game_state, ScreenCell(game_state, pos))
               /\ ~UnderPlayer(game_state, ScreenCell(game_state, pos)))
              => Cell(screen, ScreenCell(game_state, pos)[1], ScreenCell(game_state, pos)[2])
                    = Tiles[Upper(game_state.objects[pos].tile_type)]

\* draw_village_map has raised on the farm plot tilled at (50, 11).
C5_Witness ==
    /\ pc = "except"
    /\ screen.raised
    /\ <<50, 11>> \in DOMAIN game_state.objects
    /\ game_state.objects[<<50, 11>>].tile_type = "farm_plot"
    /\ Visible(game_state, <<50, 11>>)

\* A buffer no pass has written.
Unwritten == "UNWRITTEN"
Blank ==
    [ScreenBuffer(SCREEN_WIDTH, SCREEN_HEIGHT) EXCEPT
        !.buffer = [y \in 0..(SCREEN_HEIGHT - 1) |->
                       [x \in 0..(SCREEN_WIDTH - 1) |-> Unwritten]],
        !.color_buffer = [y \in 0..(SCREEN_HEIGHT - 1) |->
                       [x \in 0..(SCREEN_WIDTH - 1) |-> Unwritten]]]

\* The object overlay alone: the object glyph of every object.
RECURSIVE ObjectOverlay(_, _, _)
ObjectOverlay(scr, gs, todo) ==
    IF todo = {} THEN scr
    ELSE LET pos == CHOOSE p \in todo : TRUE
         IN  ObjectOverlay(draw_object_cell(scr, gs, pos[1], pos[2],
                                            FrameOffset(gs)[1], FrameOffset(gs)[2]),
                           gs, todo \ {pos})

\* What each pass writes, on a buffer of its own, in the order border, title,
\* terrain, object overlay, player glyph, minimap, status line, UI panel.
PassLayers(gs) ==
    << draw_border(Blank),
       draw_title(Blank),
       draw_map_cells(Blank, [gs EXCEPT !.objects = <<>>]),
       ObjectOverlay(Blank, gs, DOMAIN gs.objects),
       draw_player(Blank, gs, FrameOffset(gs)[1], FrameOffset(gs)[2]),
       draw_minimap(Blank, gs),
       draw_status_line(Blank, gs),
       ui_panel_draw(Blank, gs) >>

\* The passes that write the cell (x, y), as indexes of the layers.
Writers(layers, x, y) == {k \in 1..Len(layers) : layers[k].buffer[y][x] # Unwritten}

\* The largest element of a non-empty set of integers.
Last(set) == CHOOSE k \in set : \A j \in set : j <= k

\* The content of the cell (x, y) if the latest pass of the order that writes
\* it decides; a cell no pass writes is as clear() left it.
LatestPass(layers, x, y) ==
    IF Writers(layers, x, y) = {} THEN <<" ", ENDC>>
    ELSE Cell(layers[Last(Writers(layers, x, y))], x, y)

\* C8: when the passes of a playing frame have run (border, title, terrain,
\* object overlay, player glyph, minimap if enabled, status line, UI panel),
\* every cell of the buffer holds what the latest of the passes that write it
\* wrote.
C8_LatestPassWins ==
    pc = "render" =>
        \A layers \in {PassLayers(game_state)} :
            \A x \in Xs(screen), y \in Ys(screen) :
                Cell(screen, x, y) = LatestPass(layers, x, y)

\* The frame drawn with the player at (11, 7) below the minimap and the stump
\* at (11, 8) right of it: the stump is over the tree terrain, the minimap
\* over the player glyph.
C8_Witness ==
    /\ pc = "render"
    /\ game_state.player_pos = <<11, 7>>
    /\ game_state.show_minimap
    /\ game_state.objects[<<11, 8>>].tile_type = "stump"
    /\ \E layers \in {PassLayers(game_state)} :
          /\ Writers(layers, 13, 10) = {3, 4}
          /\ Cell(layers[3], 13, 10) = Tiles.TREE
          /\ Cell(screen, 13, 10) = Tiles.STUMP
          /\ Writers(layers, 13, 9) = {3, 5, 6}
          /\ Cell(layers[5], 13, 9) = <<"TRI_DOWN", "fg(255,0,0)">>
          /\ Cell(screen, 13, 9) = Cell(layers[6], 13, 9)
          /\ Cell(screen, 13, 9) # Cell(layers[5], 13, 9)

\* The screen cell of a player who stands on the map tile pos.
PlayerCell(pos) ==
    <<pos[1] + calculate_camera_offset(pos, MapWidth, MapHeight,
                                       MAIN_AREA_WIDTH, SCREEN_HEIGHT)[1] + 2,
      pos[2] + calculate_camera_offset(pos, MapWidth, MapHeight,
                                       MAIN_AREA_WIDTH, SCREEN_HEIGHT)[2] + 2>>

\* The cell is inside the viewport: columns 2..65 and rows 2..21.
InViewport(cell) ==
    /\ 2 <= cell[1] /\ cell[1] <= MAIN_AREA_WIDTH - 3
    /\ 2 <= cell[2] /\ cell[2] <= SCREEN_HEIGHT - 3

\* C27: in every playing frame the screen cell of the player is inside the
\* viewport (columns 2..65, rows 2..21), for every position of the map, and
\* the buffer that is rendered holds the glyph of the direction the player
\* faces at that cell, also while the minimap is enabled.
C27_PlayerGlyphShown ==
    /\ \A x \in 0..(MapWidth - 1), y \in 0..(MapHeight - 1) :
          InViewport(PlayerCell(<<x, y>>))
    /\ pc = "render" =>
          /\ InViewport(ScreenCell(game_state, game_state.player_pos))
          /\ Cell(screen, ScreenCell(game_state, game_state.player_pos)[1],
                          ScreenCell(game_state, game_state.player_pos)[2])
                = <<player_char(game_state.player_direction), "fg(255,0,0)">>

\* The frame that is rendered with the minimap enabled and the player at
\* (11, 7): the cell of the player, (13, 9), holds a cell of the minimap.
C27_Witness ==
    /\ pc = "render"
    /\ game_state.show_minimap
    /\ game_state.player_pos = <<11, 7>>
    /\ ScreenCell(game_state, game_state.player_pos) = <<13, 9>>
    /\ UnderMinimap(game_state, <<13, 9>>)
    /\ Cell(screen, 13, 9) = Cell(draw_minimap(Blank, game_state), 13, 9)
    /\ Cell(screen, 13, 9)[1] # player_char(game_state.player_direction)

(***************************************************************************)
(* class InputHandler, the terminal and the process.  The terminal is a    *)
(* record: attrs are its attributes (termios), stdin the bytes typed and   *)
(* not read yet; two history fields: at_start are the attributes it had    *)
(* when the program started, presses counts the keys typed.  A byte is     *)
(* written as a string: "ESC" is '\x1b', "NUL" b'\x00', "E0" b'\xe0',      *)
(* "E9" b'\xe9' (a byte that is not UTF-8 on its own), "ENTER" '\r'.       *)
(***************************************************************************)
\* The attributes a terminal has when the program starts, and those
\* tty.setraw sets.
TermModes == {"cooked", "cbreak"}
RAW == "raw"

\* InputHandler.__init__: old_settings = termios.tcgetattr(fd) unless on Windows
InputHandler(is_windows, term) ==
    [is_windows |-> is_windows,
     old_settings |-> IF is_windows THEN Idle ELSE term.attrs]

\* A tcsetattr that leaves the terminal as it is.
tcsetattr_ignored(term, settings) == term

\* termios.tcsetattr(fd, TCSADRAIN, settings)
tcsetattr(term, settings) == [term EXCEPT !.attrs = settings]

\* tty.setraw(fd), which sets the attributes with TCSAFLUSH: the bytes typed
\* and not read yet are discarded
setraw(term) == [term EXCEPT !.attrs = RAW, !.stdin = <<>>]

\* sys.stdin.read(1) and msvcrt.getch() on a terminal with a byte pending:
\* the byte read, and the terminal after the read.
read(term) == Head(term.stdin)
after_read(term) == [term EXCEPT !.stdin = Tail(@)]

\* msvcrt.kbhit()
kbhit(term) == term.stdin # <<>>

\* InputHandler.cleanup
input_handler_cleanup(handler, term) ==
    IF ~handler.is_windows THEN tcsetattr(term, handler.old_settings) ELSE term

\* The keys typed in the model and the bytes a terminal sends for them: the
\* escape sequences ESC [ A/B/C/D of the arrow keys on Unix, their two-byte
\* codes on Windows, whose first byte (prefix) is NUL or E0.
ArrowKeys == {"up", "down", "left", "right"}
TypedKeys == ArrowKeys \cup {"w", "ESC", "ENTER", "E9"}

UnixBytes(key) ==
    CASE key = "up" -> <<"ESC", "[", "A">>
      [] key = "down" -> <<"ESC", "[", "B">>
      [] key = "right" -> <<"ESC", "[", "C">>
      [] key = "left" -> <<"ESC", "[", "D">>
      [] OTHER -> <<key>>

WindowsBytes(key, prefix) ==
    CASE key = "up" -> <<prefix, "H">>
      [] key = "down" -> <<prefix, "P">>
      [] key = "left" -> <<prefix, "K">>
      [] key = "right" -> <<prefix, "M">>
      [] OTHER -> <<key>>

\* A call of getch that has not started or has returned.
NoCall == [pc |-> "idle", ch |-> "", ret |-> "", consumed |-> <<>>, raised |-> FALSE]

(***************************************************************************)
(* The input specification: the process from the start of main_game_loop   *)
(* to its exit, on Windows and on Unix.  pc is the position of the         *)
(* process: "getch" (from the start of an iteration to the return of       *)
(* getch), "handle" (the rest of the iteration), "finally" (the finally    *)
(* clause of __main__ after the loop ended), "finally_raised" (the same    *)
(* after an exception left the loop), "exited" and "exited_raised".        *)
(* call.pc is the position inside getch; call.consumed (history) are the   *)
(* bytes the call read, call.raised (history) whether an exception was     *)
(* raised inside it.  Up to MaxKeyPresses keys are typed, at any time;     *)
(* the loop makes up to MaxInputFrames iterations.                         *)
(***************************************************************************)
InputInit ==
    /\ BufIdle /\ CamIdle /\ StatusIdle
    /\ \E is_windows \in BOOLEAN, attrs \in TermModes :
          /\ terminal = [attrs |-> attrs, stdin |-> <<>>, at_start |-> attrs, presses |-> 0]
          /\ input_handler = InputHandler(is_windows, terminal)
    /\ call = NoCall
    /\ game_state = Locals.game_state
    /\ current_state = Locals.current_state
    /\ running = Locals.running
    /\ main_menu = Locals.main_menu
    /\ pause_menu = Locals.pause_menu
    /\ trace = <<>> /\ frames = 0 /\ stumps = <<>>
    /\ pc = "getch"

InputFrame == UNCHANGED <<bufVars, camVars, statusVars, input_handler, trace, stumps>>
SameLocals == UNCHANGED <<game_state, current_state, running, main_menu, pause_menu, frames>>

\* A key is typed.
KeyPress ==
    /\ pc \in {"getch", "handle"}
    /\ terminal.presses < MaxKeyPresses
    /\ \E key \in TypedKeys, prefix \in {"NUL", "E0"} :
          terminal' = [terminal EXCEPT
                          !.stdin = @ \o (IF input_handler.is_windows
                                          THEN WindowsBytes(key, prefix)
                                          ELSE UnixBytes(key)),
                          !.presses = @ + 1]
    /\ UNCHANGED <<call, pc>>
    /\ SameLocals /\ InputFrame

\* key = input_handler.getch(): the call
GetchCall ==
    /\ pc = "getch" /\ call.pc = "idle" /\ frames < MaxInputFrames
    /\ call' = [NoCall EXCEPT !.pc = IF input_handler.is_windows THEN "kbhit" ELSE "setraw"]
    /\ UNCHANGED <<terminal, pc>>
    /\ SameLocals /\ InputFrame

\* The return of getch with the value ret.
Return(ret) ==
    /\ call' = [call EXCEPT !.pc = "idle", !.ret = ret]
    /\ pc' = "handle"

\* if msvcrt.kbhit(): ... return ''
WindowsKbhit ==
    /\ call.pc = "kbhit"
    /\ IF kbhit(terminal)
       THEN call' = [call EXCEPT !.pc = "getch"] /\ UNCHANGED pc
       ELSE Return("")
    /\ UNCHANGED terminal
    /\ SameLocals /\ InputFrame

\* ch = msvcrt.getch(); ...; return ch.decode('utf-8'), which raises on E9:
\* except: return ''
WindowsGetch ==
    /\ call.pc = "getch"
    /\ terminal' = after_read(terminal)
    /\ IF read(terminal) \in {"NUL", "E0"}
       THEN /\ call' = [call EXCEPT !.pc = "getch2", !.ch = read(terminal),
                                    !.consumed = Append(@, read(terminal))]
            /\ UNCHANGED pc
       ELSE /\ call' = [call EXCEPT !.pc = "idle", !.ch = read(terminal),
                                    !.consumed = Append(@, read(terminal)),
                                    !.raised = read(terminal) = "E9",
                                    !.ret = IF read(terminal) = "E9" THEN ""
                                            ELSE read(terminal)]
            /\ pc' = "handle"
    /\ SameLocals /\ InputFrame

\* ch2 = msvcrt.getch(), which waits for a byte; b'H' is 'w', b'P' is 's',
\* any other byte ''
WindowsGetch2 ==
    /\ call.pc = "getch2"
    /\ terminal.stdin # <<>>
    /\ terminal' = after_read(terminal)
    /\ call' = [call EXCEPT !.pc = "idle",
                            !.consumed = Append(@, read(terminal)),
                            !.ret = CASE read(terminal) = "H" -> "w"
                                      [] read(terminal) = "P" -> "s"
                                      [] OTHER -> ""]
    /\ pc' = "handle"
    /\ SameLocals /\ InputFrame

\* tty.setraw(sys.stdin.fileno())
UnixSetRaw ==
    /\ call.pc = "setraw"
    /\ terminal' = setraw(terminal)
    /\ call' = [call EXCEPT !.pc = "read"]
    /\ UNCHANGED pc
    /\ SameLocals /\ InputFrame

\* ch = sys.stdin.read(1), which waits for a byte
UnixRead ==
    /\ call.pc = "read"
    /\ terminal.stdin # <<>>
    /\ terminal' = after_read(terminal)
    /\ call' = [call EXCEPT !.pc = IF read(terminal) = "ESC" THEN "read2" ELSE "finally",
                            !.ch = read(terminal),
                            !.consumed = Append(@, read(terminal)),
                            !.ret = IF read(terminal) = "ESC" THEN "" ELSE read(terminal)]
    /\ UNCHANGED pc
    /\ SameLocals /\ InputFrame

\* ch2 = sys.stdin.read(1) after ESC; without '[' the call returns ch
UnixRead2 ==
    /\ call.pc = "read2"
    /\ terminal.stdin # <<>>
    /\ terminal' = after_read(terminal)
    /\ call' = [call EXCEPT !.pc = IF read(terminal) = "[" THEN "read3" ELSE "finally",
                            !.consumed = Append(@, read(terminal)),
                            !.ret = IF read(terminal) = "[" THEN "" ELSE call.ch]
    /\ UNCHANGED pc
    /\ SameLocals /\ InputFrame

\* ch3 = sys.stdin.read(1) after ESC [; 'A' is 'w', 'B' is 's', any other
\* byte ''
UnixRead3 ==
    /\ call.pc = "read3"
    /\ terminal.stdin # <<>>
    /\ terminal' = after_read(terminal)
    /\ call' = [call EXCEPT !.pc = "finally",
                            !.consumed = Append(@, read(terminal)),
                            !.ret = CASE read(terminal) = "A" -> "w"
                                      [] read(terminal) = "B" -> "s"
                                      [] OTHER -> ""]
    /\ UNCHANGED pc
    /\ SameLocals /\ InputFrame

\* except: return '' -- an exception raised inside a read (the read is
\* interrupted)
UnixReadRaises ==
    /\ call.pc \in {"read", "read2", "read3"}
    /\ call' = [call EXCEPT !.pc = "finally", !.ret = "", !.raised = TRUE]
    /\ UNCHANGED <<terminal, pc>>
    /\ SameLocals /\ InputFrame

\* finally: termios.tcsetattr(self.fd, termios.TCSADRAIN, self.old_settings),
\* and the return
UnixFinally ==
    /\ call.pc = "finally"
    /\ terminal' = tcsetattr(terminal, input_handler.old_settings)
    /\ Return(call.ret)
    /\ SameLocals /\ InputFrame

\* The rest of the iteration, with the key getch returned.
LoopIterate ==
    /\ pc = "handle"
    /\ \E cooled \in BOOLEAN :
         \E it \in {Iteration([game_state |-> game_state, current_state |-> current_state,
                               running |-> running, main_menu |-> main_menu,
                               pause_menu |-> pause_menu], call.ret, 2, cooled)} :
              /\ game_state' = it.locals.game_state
              /\ current_state' = it.locals.current_state
              /\ running' = it.locals.running
              /\ main_menu' = it.locals.main_menu
              /\ pause_menu' = it.locals.pause_menu
              /\ pc' = IF it.locals.running THEN "getch" ELSE "finally"
    /\ frames' = frames + 1
    /\ UNCHANGED <<terminal, call>>
    /\ InputFrame

\* An exception that is not an Exception (KeyboardInterrupt) leaves
\* main_game_loop: raised outside getch, in kbhit, or in the finally clause of
\* getch before tcsetattr is called.
LoopRaises ==
    /\ \/ pc = "getch" /\ call.pc \in {"idle", "kbhit", "finally"}
       \/ pc = "handle"
    /\ pc' = "finally_raised"
    /\ call' = [call EXCEPT !.pc = "idle", !.raised = TRUE]
    /\ UNCHANGED terminal
    /\ SameLocals /\ InputFrame

\* finally: cleanup() of __main__
ProcessFinally ==
    /\ pc \in {"finally", "finally_raised"}
    /\ terminal' = input_handler_cleanup(input_handler, terminal)
    /\ pc' = IF pc = "finally" THEN "exited" ELSE "exited_raised"
    /\ UNCHANGED call
    /\ SameLocals /\ InputFrame

\* The steps of the program, and those of its environment.
ProgramStep ==
    \/ GetchCall \/ WindowsKbhit \/ WindowsGetch \/ WindowsGetch2
    \/ UnixSetRaw \/ UnixRead \/ UnixRead2 \/ UnixRead3 \/ UnixFinally
    \/ LoopIterate \/ ProcessFinally

InputNext == ProgramStep \/ KeyPress \/ UnixReadRaises \/ LoopRaises

SpecInput == InputInit /\ [][InputNext]_vars

\* The program takes a step whenever it can: it runs; nothing is assumed of
\* the keys typed and the interrupts.
SpecInputFair == SpecInput /\ WF_vars(ProgramStep)

\* A call of getch is under way.
InGetch == call.pc # "idle"

\* C18: reading input never blocks the frame loop: on every platform path a
\* call of getch made while no key is pending returns (with no key), unless a
\* key arrives in the meantime; so with no input at all the loop goes on
\* iterating.
C18_GetchReturnsWithoutKey ==
    (InGetch /\ terminal.stdin = <<>>) ~> (~InGetch \/ terminal.stdin # <<>>)

\* On Unix a call of getch waits in sys.stdin.read(1), in raw mode, while no
\* key was ever typed and the loop has made no iteration.
C18_Witness ==
    /\ ~input_handler.is_windows
    /\ call.pc = "read"
    /\ terminal.stdin = <<>>
    /\ terminal.presses = 0
    /\ terminal.attrs = RAW
    /\ frames = 0

\* The key of W, A, S, D of the direction of an arrow key.
ArrowAsWASD(key) ==
    CASE key = "up" -> "w"
      [] key = "down" -> "s"
      [] key = "left" -> "a"
      [] key = "right" -> "d"

\* The bytes are those of the arrow key on the platform of the handler.
BytesOfArrow(bytes, key) ==
    IF input_handler.is_windows
    THEN \E prefix \in {"NUL", "E0"} : bytes = WindowsBytes(key, prefix)
    ELSE bytes = UnixBytes(key)

\* C19: getch returns for each of the four arrow keys the key of W, A, S, D
\* of the same direction, on Windows and on Unix, and the empty string when
\* it read no key.
C19_ArrowsAsWASD ==
    (pc = "handle" /\ ~call.raised) =>
        /\ \A key \in ArrowKeys :
              BytesOfArrow(call.consumed, key) => call.ret = ArrowAsWASD(key)
        /\ call.consumed = <<>> => call.ret = ""

\* getch read the bytes of the left or the right arrow key and returned the
\* empty string.
C19_Witness ==
    /\ pc = "handle"
    /\ \E key \in {"left", "right"} : BytesOfArrow(call.consumed, key)
    /\ call.ret = ""

\* The terminal has the attributes it had when the program started, which
\* are those the handler saved.
Released ==
    /\ terminal.attrs = terminal.at_start
    /\ ~input_handler.is_windows => input_handler.old_settings = terminal.at_start

\* C20: the raw mode is released on every exit path: after every return of
\* getch (of a key, of an escape sequence, or after an exception inside a
\* read) and after the process has left the main loop, normally or by an
\* exception, the terminal has the attributes saved when the handler was
\* made.
C20_RawModeReleased ==
    /\ (pc = "handle" /\ call.pc = "idle") => Released
    /\ (pc = "getch" /\ call.pc = "idle") => Released
    /\ pc \in {"exited", "exited_raised"} => Released

\* On Unix an exception left the loop while getch was in its finally clause,
\* the terminal raw, after a read of the call had raised; the process has
\* exited.
C20_Witness ==
    /\ ~input_handler.is_windows
    /\ pc = "exited_raised"
    /\ call.consumed # <<>>
    /\ call.ret = ""
    /\ call.raised
    /\ frames >= 1
    /\ Released

====
